---- MODULE Spec2Model ----
(***************************************************************************)
(* A model of the Prism tokenizer of astro-community/code (prism.ts):      *)
(* Prism.tokenize, matchGrammar, matchPattern, the LinkedList working      *)
(* list, the hook registry and Prism.highlight.                            *)
(*                                                                         *)
(* Texts are sequences of one-character strings.  Offsets are 0-based as   *)
(* in the source; SubSeq indices are shifted by one where they are used.   *)
(***************************************************************************)
EXTENDS Integers, Sequences, FiniteSets, TLC

\* ------------------------------------------------------------------------
\* Bounds of the model
\* ------------------------------------------------------------------------

\* longest enumerated input text
MaxLen == 3

\* most keys of an enumerated grammar
MaxKeys == 2

\* most hooks.add calls before a highlight call
MaxHooks == 2

\* ------------------------------------------------------------------------
\* Strings
\* ------------------------------------------------------------------------

Min(a, b) == IF a < b THEN a ELSE b

Max(a, b) == IF a > b THEN a ELSE b

\* the index String.prototype.slice makes of an argument: a negative one
\* counts from the end, and both ends are clamped to the string
SliceIndex(s, i) == IF i < 0 THEN Max(Len(s) + i, 0) ELSE Min(i, Len(s))

\* String.prototype.slice(from, to)
Slice(s, from, to) == SubSeq(s, SliceIndex(s, from) + 1, SliceIndex(s, to))

\* the rest of the string from one character after the index on
SliceAfter(s, from) == Slice(s, from + 1, Len(s))

\* String.prototype.slice(from)
SliceFrom(s, from) == SubSeq(s, SliceIndex(s, from) + 1, Len(s))

\* ------------------------------------------------------------------------
\* Regular expressions (RegExp.prototype.exec as matchPattern uses it)
\*
\* A pattern is [atoms, group, anchored, flags]: a sequence of atoms, each a
\* character class with a quantifier ("one", "plus", "star"), the first
\* `group` atoms forming capturing group 1 (hasGroup tells whether there is
\* a group at all: /(^)x/ has an empty one), `anchored` for a leading ^, and
\* the set of flag letters.
\* ------------------------------------------------------------------------

Word == {"a", "b", "c", "d", "x"}

Space == {" "}

Atom(cls, q) == [cls |-> cls, q |-> q]

Pat(atoms, group, hasGroup, anchored, flags) ==
    [atoms |-> atoms, group |-> group, hasGroup |-> hasGroup,
     anchored |-> anchored, flags |-> flags]

\* number of consecutive characters of class cls in text from offset i
RECURSIVE RunLen(_, _, _)
RunLen(cls, text, i) ==
    IF i < Len(text) /\ text[i + 1] \in cls
    THEN 1 + RunLen(cls, text, i + 1)
    ELSE 0

NoMatchAt == [end |-> -1, gend |-> -1]

\* Backtracking match of atoms k.. of pattern p at offset i: the end offset
\* of the match and the end offset of group 1, or NoMatchAt.  Quantifiers
\* are greedy: the longest repetition is tried first.
RECURSIVE MatchFrom(_, _, _, _)
RECURSIVE TryLen(_, _, _, _, _, _)
MatchFrom(p, k, text, i) ==
    IF k > Len(p.atoms)
    THEN [end |-> i, gend |-> i]
    ELSE LET a == p.atoms[k]
             run == RunLen(a.cls, text, i)
             mn == IF a.q = "star" THEN 0 ELSE 1
             mx == IF a.q = "one" THEN Min(1, run) ELSE run
         IN  TryLen(p, k, text, i, mx, mn)

TryLen(p, k, text, i, n, mn) ==
    IF n < mn
    THEN NoMatchAt
    ELSE LET r == MatchFrom(p, k + 1, text, i + n)
         IN  IF r.end >= 0
             THEN [end |-> r.end, gend |-> IF k = p.group THEN i + n ELSE r.gend]
             ELSE TryLen(p, k, text, i, n - 1, mn)

NoMatch == [ok |-> FALSE, index |-> 0, len |-> 0, g1 |-> 0]

\* the leftmost match starting at an offset in i..hi
RECURSIVE Scan(_, _, _, _)
Scan(p, text, i, hi) ==
    IF i > hi
    THEN NoMatch
    ELSE LET r == MatchFrom(p, 1, text, i)
         IN  IF r.end >= 0
             THEN [ok |-> TRUE, index |-> i, len |-> r.end - i,
                   g1 |-> IF p.hasGroup /\ p.group > 0 THEN r.gend - i ELSE 0]
             ELSE Scan(p, text, i + 1, hi)

\* pattern.exec(text) with pattern.lastIndex = lastIndex.  lastIndex is
\* read only by a global or sticky pattern; a sticky pattern matches at
\* lastIndex only; ^ (no m flag) matches at offset 0 only.
Exec(p, text, lastIndex) ==
    LET start == IF "g" \in p.flags \/ "y" \in p.flags THEN lastIndex ELSE 0
        hi == IF "y" \in p.flags THEN start ELSE Len(text)
    IN  IF start > Len(text) THEN NoMatch
        ELSE IF p.anchored
             THEN IF start = 0 THEN Scan(p, text, 0, 0) ELSE NoMatch
             ELSE Scan(p, text, start, hi)

\* pattern.exec(text) alone: the match with its lookbehind group
RawMatch(pattern, pos, text, lookbehind) == Exec(pattern, text, pos)

\* matchPattern: the match with the lookbehind group cut off its front
matchPattern(pattern, pos, text, lookbehind) ==
    LET match == Exec(pattern, text, pos)
    IN  IF match.ok /\ lookbehind /\ match.g1 > 0
        THEN [match EXCEPT !.index = match.index + match.g1,
                           !.len = match.len - match.g1]
        ELSE match

\* The flags matchGrammar keeps when it rebuilds a greedy pattern:
\* pattern.toString().match(/[imsuy]*$/)[0], the longest run of letters
\* i, m, s, u, y at the end of the flags in their canonical order, plus g.
FlagOrder == <<"d", "g", "i", "m", "s", "u", "v", "y">>

RECURSIVE KeptFlags(_, _)
KeptFlags(flags, n) ==
    IF n = 0 THEN {}
    ELSE IF FlagOrder[n] \notin flags THEN KeptFlags(flags, n - 1)
    ELSE IF FlagOrder[n] \in {"i", "m", "s", "u", "y"}
         THEN {FlagOrder[n]} \cup KeptFlags(flags, n - 1)
         ELSE {}

\* a rewrite that keeps every flag
AllFlags(pattern) == [pattern EXCEPT !.flags = pattern.flags \cup {"g"}]

GlobalPattern(pattern) ==
    [pattern EXCEPT !.flags = KeptFlags(pattern.flags, Len(FlagOrder)) \cup {"g"}]

\* ------------------------------------------------------------------------
\* Values of list nodes and stream elements: a plain string or a Token
\* ------------------------------------------------------------------------

NullValue ==
    [kind |-> "null", type |-> "", str |-> <<>>, nested |-> FALSE,
     stream |-> <<>>, alias |-> <<>>, length |-> 0]

\* a plain string; its length is String.prototype.length
Str(s) ==
    [kind |-> "str", type |-> "", str |-> s, nested |-> FALSE,
     stream |-> <<>>, alias |-> <<>>, length |-> Len(s)]

\* new Token(type, content, alias): matchedStr is left out, the length is 0
ShortToken(type, content, alias, matchedStr) ==
    [kind |-> "tok", type |-> type, str |-> content, nested |-> FALSE,
     stream |-> <<>>, alias |-> alias, length |-> 0]

\* new Token(type, content, alias, matchedStr); content is a string
Token(type, content, alias, matchedStr) ==
    [kind |-> "tok", type |-> type, str |-> content, nested |-> FALSE,
     stream |-> <<>>, alias |-> alias, length |-> Len(matchedStr)]

\* new Token(type, content, alias, matchedStr); content is a token stream
TokenOfStream(type, content, alias, matchedStr) ==
    [kind |-> "tok", type |-> type, str |-> <<>>, nested |-> TRUE,
     stream |-> content, alias |-> alias, length |-> Len(matchedStr)]

\* ------------------------------------------------------------------------
\* LinkedList: nodes live in an arena, 1 is head, 2 is tail, 0 is null
\* ------------------------------------------------------------------------

HeadNode == 1

TailNode == 2

NewList ==
    [nodes |-> << [value |-> NullValue, prev |-> 0, next |-> TailNode],
                  [value |-> NullValue, prev |-> HeadNode, next |-> 0] >>,
     length |-> 0]

\* addAfter(list, node, value); the new node is the arena's last one
addAfter(list, node, value) ==
    LET next == list.nodes[node].next
        newNode == Len(list.nodes) + 1
    IN  [nodes |-> [Append(list.nodes,
                           [value |-> value, prev |-> node, next |-> next])
                      EXCEPT ![node].next = newNode, ![next].prev = newNode],
         length |-> list.length + 1]

\* the node removeRange stops at, with the number of nodes it passed
RECURSIVE SkipNodes(_, _, _, _)
SkipNodes(nodes, next, removedCount, count) ==
    IF removedCount < count /\ next # TailNode
    THEN SkipNodes(nodes, nodes[next].next, removedCount + 1, count)
    ELSE <<next, removedCount>>

\* a removeRange that takes count off the length, whatever it removed
RemoveCounted(list, node, count) ==
    LET r == SkipNodes(list.nodes, list.nodes[node].next, 0, count)
    IN  [nodes |-> [list.nodes EXCEPT ![node].next = r[1], ![r[1]].prev = node],
         length |-> list.length - count]

\* removeRange(list, node, count)
removeRange(list, node, count) ==
    LET r == SkipNodes(list.nodes, list.nodes[node].next, 0, count)
    IN  [nodes |-> [list.nodes EXCEPT ![node].next = r[1], ![r[1]].prev = node],
         length |-> list.length - r[2]]

RECURSIVE CollectFrom(_, _)
CollectFrom(nodes, node) ==
    IF node = TailNode THEN <<>>
    ELSE <<nodes[node].value>> \o CollectFrom(nodes, nodes[node].next)

toArray(list) == CollectFrom(list.nodes, list.nodes[HeadNode].next)

\* ------------------------------------------------------------------------
\* State
\* ------------------------------------------------------------------------

VARIABLES
    grammars,   \* the grammar objects, by identity: 1..Len(grammars)
    input,      \* [call, text, g, language]: the top-level call and its arguments
    stack,      \* the running Prism.tokenize activations, innermost last
    pc,         \* "idle", "run", "ret", "hook", "done" or "threw"
    ret,        \* the stream the last finished Prism.tokenize returned
    results,    \* the streams the top-level tokenize calls returned, in order
    ev,         \* what the last step did
    hooks,      \* hooks.all: hook name -> the callbacks added, in order
    hl,         \* the running Prism.highlight call
    log         \* the callbacks and phases of the highlight call, in order

vars == <<grammars, input, stack, pc, ret, results, ev, hooks, hl, log>>

\* ------------------------------------------------------------------------
\* Grammars
\*
\* A grammar is [keys, rest]: its keys in Object.keys order, each
\* [name, rules, falsy] (falsy: the key holds undefined/null), and the
\* identity of the grammar under its `rest` key (0: none).  A rule is
\* [pattern, lookbehind, greedy, alias, inside] (inside 0: none).
\* ------------------------------------------------------------------------

Rule(pattern, lookbehind, greedy, inside) ==
    [pattern |-> pattern, lookbehind |-> lookbehind, greedy |-> greedy,
     alias |-> <<>>, inside |-> inside]

Aliased(rule, alias) == [rule EXCEPT !.alias = alias]

Key(name, rules) == [name |-> name, rules |-> rules, falsy |-> FALSE]

FalsyKey(name) == [name |-> name, rules |-> <<>>, falsy |-> TRUE]

Grammar(keys, rest) == [keys |-> keys, rest |-> rest]

KeyIndex(keys, name) ==
    IF \E i \in 1..Len(keys) : keys[i].name = name
    THEN CHOOSE i \in 1..Len(keys) : keys[i].name = name
    ELSE 0

\* an assignment that puts every key at the end
AppendKey(keys, key) == Append(keys, key)

\* grammar[token] = value: an existing key keeps its place
SetKey(keys, key) ==
    IF KeyIndex(keys, key.name) = 0
    THEN Append(keys, key)
    ELSE [keys EXCEPT ![KeyIndex(keys, key.name)] = key]

\* for (const token in rest) grammar[token] = rest[token]
RECURSIVE MergeKeys(_, _, _)
MergeKeys(keys, restKeys, n) ==
    IF n > Len(restKeys) THEN keys
    ELSE MergeKeys(SetKey(keys, restKeys[n]), restKeys, n + 1)

\* the head of Prism.tokenize: `rest` merged into the grammar and deleted
\* (the loop copies rest's own `rest` key too, and the delete removes it)
MergeRest(gs, g) ==
    IF gs[g].rest = 0 THEN gs
    ELSE [gs EXCEPT ![g] = Grammar(MergeKeys(gs[g].keys, gs[gs[g].rest].keys, 1), 0)]

\* ------------------------------------------------------------------------
\* Activations of Prism.tokenize and frames of matchGrammar
\* ------------------------------------------------------------------------

NoCause == [token |-> "", j |-> -1]

NoRule == Rule(Pat(<<>>, 0, FALSE, FALSE, {}), FALSE, FALSE, 0)

NoPend == [removeFrom |-> 0, matchStr |-> <<>>, after |-> <<>>,
           removeCount |-> 0, reach |-> 0, start |-> 0, from |-> 0, g1 |-> 0]

\* a pass that starts at the grammar's second key
LaterFrame(startNode, startPos, rematch, cause, reach) ==
    [ki |-> 2, j |-> 1, phase |-> "rule", cur |-> 0, pos |-> 0,
     token |-> "", rule |-> NoRule,
     startNode |-> startNode, startPos |-> startPos,
     rematch |-> rematch, cause |-> cause, reach |-> reach,
     pend |-> NoPend]

\* a pass that is given no cause
UncausedFrame(startNode, startPos, rematch, cause, reach) ==
    [ki |-> 1, j |-> 1, phase |-> "rule", cur |-> 0, pos |-> 0,
     token |-> "", rule |-> NoRule,
     startNode |-> startNode, startPos |-> startPos,
     rematch |-> rematch, cause |-> NoCause, reach |-> reach,
     pend |-> NoPend]

\* matchGrammar(text, tokenList, grammar, startNode, startPos, rematch)
\* at its first rule
Frame(startNode, startPos, rematch, cause, reach) ==
    [ki |-> 1, j |-> 1, phase |-> "rule", cur |-> 0, pos |-> 0,
     token |-> "", rule |-> NoRule,
     startNode |-> startNode, startPos |-> startPos,
     rematch |-> rematch, cause |-> cause, reach |-> reach,
     pend |-> NoPend]

\* a call that starts from the empty list
BareActivation(text, g) ==
    [text |-> text, g |-> g,
     list |-> NewList,
     frames |-> << Frame(HeadNode, 0, FALSE, NoCause, 0) >>]

\* Prism.tokenize(text, grammar) up to its call of matchGrammar
Activation(text, g) ==
    [text |-> text, g |-> g,
     list |-> addAfter(NewList, HeadNode, Str(text)),
     frames |-> << Frame(HeadNode, 0, FALSE, NoCause, 0) >>]

A == stack[Len(stack)]

F == A.frames[Len(A.frames)]

Running == pc = "run" /\ stack # <<>>

\* grammar[token] for the key the loop over Object.keys(grammar) is at
CurKey == grammars[A.g].keys[F.ki]

HasRule == F.ki <= Len(grammars[A.g].keys) /\ ~CurKey.falsy /\ F.j <= Len(CurKey.rules)

patternObj == CurKey.rules[F.j]

\* `${token},${j}`
CauseOf(token, j) == [token |-> token, j |-> j - 1]

CurValue == A.list.nodes[F.cur].value

\* the stack with the top frame replaced
WithFrame(f) ==
    [stack EXCEPT ![Len(stack)].frames[Len(A.frames)] = f]

\* the stack with the top activation's list and top frame replaced
WithListFrame(list, f) ==
    [stack EXCEPT ![Len(stack)].list = list,
                  ![Len(stack)].frames[Len(A.frames)] = f]

\* an increment that leaves pos alone: currentNode = currentNode.next
StepNode(list, f) ==
    [f EXCEPT !.cur = list.nodes[f.cur].next, !.phase = "node"]

\* the loop's increment: pos += currentNode.value.length,
\* currentNode = currentNode.next
Advance(list, f) ==
    [f EXCEPT !.pos = f.pos + list.nodes[f.cur].value.length,
              !.cur = list.nodes[f.cur].next,
              !.phase = "node"]

\* leaving the node loop: the next ++j
NextPattern(f) == [f EXCEPT !.j = f.j + 1, !.phase = "rule"]

\* the node addAfter just returned
LastNode(list) == Len(list.nodes)

\* What a step did: its kind, the activation (depth) and matchGrammar frame
\* (level) it ran in, the rule, and for a splice the new Token's node, the
\* offsets where the replaced nodes started and ended, the offset and
\* length of the token's text, the length of the lookbehind group and the
\* number of nodes replaced.
Event(kind, depth, level, f) ==
    [kind |-> kind, depth |-> depth, level |-> level,
     token |-> f.token, j |-> f.j - 1, rule |-> f.rule,
     rematch |-> f.rematch, cause |-> f.cause,
     node |-> 0, start |-> 0, end |-> 0, from |-> 0, len |-> 0, g1 |-> 0,
     removeCount |-> 0]

Did(kind) == Event(kind, Len(stack), Len(A.frames), F)

Idle(kind) == Event(kind, 0, 0, Frame(0, 0, FALSE, NoCause, 0))

\* ------------------------------------------------------------------------
\* matchGrammar: the rule loops
\* ------------------------------------------------------------------------

\* Prism.tokenize(input.text, input.g) is called
CallTokenize ==
    /\ pc = "idle"
    /\ ~hl.active
    /\ input.g # 0
    /\ pc' = "run"
    /\ grammars' = MergeRest(grammars, input.g)
    /\ stack' = << Activation(input.text, input.g) >>
    /\ ev' = Idle("CallTokenize")
    /\ UNCHANGED <<input, ret, results, hooks, hl, log>>

\* for (const token of Object.keys(grammar)) runs out of keys
GrammarDone ==
    /\ Running /\ F.phase = "rule"
    /\ F.ki > Len(grammars[A.g].keys)
    /\ stack' = WithFrame([F EXCEPT !.phase = "ret"])
    /\ ev' = Did("GrammarDone")
    /\ UNCHANGED <<grammars, input, pc, ret, results, hooks, hl, log>>

\* if (!grammar[token]) continue, and the end of the loop over j
RuleSkip ==
    /\ Running /\ F.phase = "rule"
    /\ F.ki <= Len(grammars[A.g].keys)
    /\ ~HasRule
    /\ stack' = WithFrame([F EXCEPT !.ki = F.ki + 1, !.j = 1])
    /\ ev' = Did("RuleSkip")
    /\ UNCHANGED <<grammars, input, pc, ret, results, hooks, hl, log>>

\* a pass that has no cause to stop at
NeverCause(f, token, j) == FALSE

\* a pass that stops at the rule after its cause
StaleCause(f, token, j) == f.rematch /\ f.cause = CauseOf(token, j - 1)

\* rematch && rematch.cause === `${token},${j}`
IsCause(f, token, j) == f.rematch /\ f.cause = CauseOf(token, j)

\* if (rematch && rematch.cause === `${token},${j}`) return
CauseReturn ==
    /\ Running /\ F.phase = "rule"
    /\ HasRule
    /\ IsCause(F, CurKey.name, F.j)
    /\ stack' = WithFrame([F EXCEPT !.phase = "ret"])
    /\ ev' = Did("CauseReturn")
    /\ UNCHANGED <<grammars, input, pc, ret, results, hooks, hl, log>>

\* patternObj as the loop body leaves it: a greedy pattern without the
\* global flag is rebuilt with it
Rewritten(obj) ==
    IF obj.greedy /\ "g" \notin obj.pattern.flags
    THEN [obj EXCEPT !.pattern = GlobalPattern(obj.pattern)]
    ELSE obj

\* patternObj as it is before the rewrite
Unrewritten(obj) == obj

\* the constants the loop body reads off patternObj (inside, lookbehind,
\* greedy, alias) and `pattern`, which is read after the rewrite
Captured(obj) == Rewritten(obj)

\* the head of the loop over j: the pattern is rewritten if need be, the
\* rule's constants are read, and the node loop starts at startNode.next
RuleStart ==
    /\ Running /\ F.phase = "rule"
    /\ HasRule
    /\ ~IsCause(F, CurKey.name, F.j)
    /\ grammars' = [grammars EXCEPT ![A.g].keys[F.ki].rules[F.j] = Rewritten(patternObj)]
    /\ stack' = WithFrame([F EXCEPT !.token = CurKey.name,
                                    !.rule = Captured(patternObj),
                                    !.cur = A.list.nodes[F.startNode].next,
                                    !.pos = F.startPos,
                                    !.phase = "node"])
    /\ ev' = Did("RuleStart")
    /\ UNCHANGED <<input, pc, ret, results, hooks, hl, log>>

\* ------------------------------------------------------------------------
\* matchGrammar: one node of the node loop
\* ------------------------------------------------------------------------

AtNode == Running /\ F.phase = "node"

LiveNode == F.cur # 0 /\ F.cur # TailNode

ReachStop == F.rematch /\ F.pos >= F.reach

\* a pass without the length test
NeverOver(act) == FALSE

\* a length test that lets one more node through
LateOver(act) == act.list.length > Len(act.text) + 1

\* tokenList.length > text.length
OverLength(act) == act.list.length > Len(act.text)

\* currentNode && currentNode !== tokenList.tail fails
LoopExit ==
    /\ AtNode /\ ~LiveNode
    /\ stack' = WithFrame(NextPattern(F))
    /\ ev' = Did("LoopExit")
    /\ UNCHANGED <<grammars, input, pc, ret, results, hooks, hl, log>>

\* if (rematch && pos >= rematch.reach) break
ReachBreak ==
    /\ AtNode /\ LiveNode /\ ReachStop
    /\ stack' = WithFrame(NextPattern(F))
    /\ ev' = Did("ReachBreak")
    /\ UNCHANGED <<grammars, input, pc, ret, results, hooks, hl, log>>

\* if (tokenList.length > text.length) return
Abort ==
    /\ AtNode /\ LiveNode /\ ~ReachStop
    /\ OverLength(A)
    /\ stack' = WithFrame([F EXCEPT !.phase = "ret"])
    /\ ev' = Did("Abort")
    /\ UNCHANGED <<grammars, input, pc, ret, results, hooks, hl, log>>

\* if (str instanceof Token) continue
SkipToken ==
    /\ AtNode /\ LiveNode /\ ~ReachStop /\ ~OverLength(A)
    /\ CurValue.kind = "tok"
    /\ stack' = WithFrame(Advance(A.list, F))
    /\ ev' = Did("SkipToken")
    /\ UNCHANGED <<grammars, input, pc, ret, results, hooks, hl, log>>

\* while (from >= p): the node that contains offset `from`, with the offset
\* p of its end; reading .value.length of the tail's null value, or .next
\* of null, is a TypeError
RECURSIVE FindNode(_, _, _, _)
FindNode(nodes, currentNode, p, from) ==
    IF from >= p
    THEN LET next == nodes[currentNode].next
         IN  IF next = 0 \/ next = TailNode
             THEN [throws |-> TRUE, node |-> next, p |-> p]
             ELSE FindNode(nodes, next, p + nodes[next].value.length, from)
    ELSE [throws |-> FALSE, node |-> currentNode, p |-> p]

\* for (k = currentNode; k !== tail && (p < to || typeof k.value ===
\* 'string'); k = k.next): the end offset and the number of nodes passed
RECURSIVE LastAffected(_, _, _, _, _)
LastAffected(nodes, k, p, to, count) ==
    IF k # TailNode /\ (p < to \/ nodes[k].value.kind = "str")
    THEN LastAffected(nodes, nodes[k].next, p + nodes[k].value.length, to, count + 1)
    ELSE [p |-> p, count |-> count]

Outcome(kind, cur, pos, removeCount, str, match) ==
    [kind |-> kind, cur |-> cur, pos |-> pos, removeCount |-> removeCount,
     str |-> str, match |-> match]

\* a greedy branch without the test for a Token
SpanAnyway(text, nodes, currentNode, p, match) ==
    Outcome("splice", currentNode, p,
            LastAffected(nodes, currentNode, p, match.index + match.len, 0).count,
            Slice(text, p, LastAffected(nodes, currentNode, p,
                                        match.index + match.len, 0).p),
            [match EXCEPT !.index = match.index - p])

\* the greedy branch from `let removeCount` on: the last node the match
\* affects, the text of the affected nodes and the match relative to it
GreedySpan(text, nodes, currentNode, p, match) ==
    IF nodes[currentNode].value.kind = "tok"
    THEN Outcome("continue", currentNode, p, 1, <<>>, match)
    ELSE LET last == LastAffected(nodes, currentNode, p,
                                  match.index + match.len, 0)
         IN  Outcome("splice", currentNode, p, last.count,
                     Slice(text, p, last.p),
                     [match EXCEPT !.index = match.index - p])

\* the greedy branch from `p -= currentNode.value.length` on
GreedyAt(text, nodes, pos, match, found) ==
    IF found.throws
    THEN Outcome("throw", found.node, pos, 1, <<>>, match)
    ELSE GreedySpan(text, nodes, found.node,
                    found.p - nodes[found.node].value.length, match)

\* the greedy branch from the test of the match on
GreedyFrom(text, nodes, currentNode, pos, match) ==
    IF ~match.ok \/ match.index >= Len(text)
    THEN Outcome("break", currentNode, pos, 1, <<>>, match)
    ELSE GreedyAt(text, nodes, pos, match,
                  FindNode(nodes, currentNode,
                           pos + nodes[currentNode].value.length, match.index))

\* the greedy branch: the pattern on the whole text from offset pos
GreedyLocate(text, nodes, currentNode, pos, pattern, lookbehind) ==
    GreedyFrom(text, nodes, currentNode, pos,
               matchPattern(pattern, pos, text, lookbehind))

\* a non-greedy branch whose splice takes the next node too
LocateTwo(str, currentNode, pos, pattern, lookbehind) ==
    IF ~matchPattern(pattern, 0, str, lookbehind).ok
    THEN Outcome("continue", currentNode, pos, 1, str,
                 matchPattern(pattern, 0, str, lookbehind))
    ELSE Outcome("splice", currentNode, pos, 2, str,
                 matchPattern(pattern, 0, str, lookbehind))

\* the non-greedy branch: the pattern on the node's own string
PlainLocate(str, currentNode, pos, pattern, lookbehind) ==
    LET match == matchPattern(pattern, 0, str, lookbehind)
    IN  IF ~match.ok
        THEN Outcome("continue", currentNode, pos, 1, str, match)
        ELSE Outcome("splice", currentNode, pos, 1, str, match)

\* what the current rule finds at the current (plain string) node
Located ==
    IF F.rule.greedy
    THEN GreedyLocate(A.text, A.list.nodes, F.cur, F.pos,
                      F.rule.pattern, F.rule.lookbehind)
    ELSE PlainLocate(CurValue.str, F.cur, F.pos,
                     F.rule.pattern, F.rule.lookbehind)

AtString ==
    /\ AtNode /\ LiveNode /\ ~ReachStop /\ ~OverLength(A)
    /\ CurValue.kind = "str"

\* greedy: if (!match || match.index >= text.length) break
MatchBreak ==
    /\ AtString
    /\ Located.kind = "break"
    /\ stack' = WithFrame(NextPattern(F))
    /\ ev' = Did("MatchBreak")
    /\ UNCHANGED <<grammars, input, pc, ret, results, hooks, hl, log>>

\* the frame after a `continue` at node cur, offset pos
Continued(list, f, cur, pos) == Advance(list, [f EXCEPT !.cur = cur, !.pos = pos])

\* non-greedy: if (!match) continue; greedy: the match starts inside a
\* Token, continue from that Token (or the walk to it throws a TypeError)
MatchContinue ==
    /\ AtString
    /\ Located.kind \in {"continue", "throw"}
    /\ IF Located.kind = "throw"
       THEN /\ pc' = "threw"
            /\ stack' = stack
       ELSE /\ pc' = pc
            /\ stack' = WithFrame(Continued(A.list, F, Located.cur, Located.pos))
    /\ ev' = Did("MatchContinue")
    /\ UNCHANGED <<grammars, input, ret, results, hooks, hl, log>>

\* ------------------------------------------------------------------------
\* matchGrammar: the splice
\* ------------------------------------------------------------------------

\* a string that passes `if (before)`, `if (after)`
AnyString(s) == TRUE

\* if (before), if (after): the empty string is falsy
Truthy(s) == s # <<>>

\* a splice that leaves the reach of the pass as it was
SpliceKeepingReach(list, f, o) ==
    LET from == o.match.index
        matchStr == Slice(o.str, from, from + o.match.len)
        before == Slice(o.str, 0, from)
        after == SliceFrom(o.str, from + o.match.len)
        reach == o.pos + Len(o.str)
        removeFrom0 == list.nodes[o.cur].prev
        list1 == IF Truthy(before) THEN addAfter(list, removeFrom0, Str(before)) ELSE list
        removeFrom == IF Truthy(before) THEN LastNode(list1) ELSE removeFrom0
        pos == IF Truthy(before) THEN o.pos + Len(before) ELSE o.pos
    IN  [list |-> removeRange(list1, removeFrom, o.removeCount),
         frame |-> [f EXCEPT !.cur = o.cur, !.pos = pos,
                             !.pend = [removeFrom |-> removeFrom,
                                       matchStr |-> matchStr, after |-> after,
                                       removeCount |-> o.removeCount,
                                       reach |-> reach, start |-> o.pos,
                                       from |-> o.pos + from,
                                       g1 |-> o.match.g1]]]

\* The splice up to removeRange: `before` is put back as a node of its own
\* and removeCount nodes are removed.  Gives the list, the frame (rematch
\* reach raised, currentNode and pos set) and what the rest of the splice
\* needs.
SpliceHead(list, f, o) ==
    LET from == o.match.index
        matchStr == Slice(o.str, from, from + o.match.len)
        before == Slice(o.str, 0, from)
        after == SliceFrom(o.str, from + o.match.len)
        reach == o.pos + Len(o.str)
        removeFrom0 == list.nodes[o.cur].prev
        list1 == IF Truthy(before) THEN addAfter(list, removeFrom0, Str(before)) ELSE list
        removeFrom == IF Truthy(before) THEN LastNode(list1) ELSE removeFrom0
        pos == IF Truthy(before) THEN o.pos + Len(before) ELSE o.pos
    IN  [list |-> removeRange(list1, removeFrom, o.removeCount),
         frame |-> [f EXCEPT !.cur = o.cur, !.pos = pos,
                             !.reach = IF f.rematch /\ reach > f.reach
                                       THEN reach ELSE f.reach,
                             !.pend = [removeFrom |-> removeFrom,
                                       matchStr |-> matchStr, after |-> after,
                                       removeCount |-> o.removeCount,
                                       reach |-> reach, start |-> o.pos,
                                       from |-> o.pos + from,
                                       g1 |-> o.match.g1]]]

\* The splice from the new Token on: the Token and `after` are added; when
\* more than one node was removed the frame waits for the rematch pass it
\* starts, else the node loop goes on.  Gives the activation's list and
\* frames.
SpliceTail(list, frames, f, wrapped) ==
    LET list1 == addAfter(list, f.pend.removeFrom, wrapped)
        currentNode == LastNode(list1)
        list2 == IF Truthy(f.pend.after)
                 THEN addAfter(list1, currentNode, Str(f.pend.after))
                 ELSE list1
        g == [f EXCEPT !.cur = currentNode, !.pend = NoPend]
        n == Len(frames)
    IN  IF f.pend.removeCount > 1
        THEN [list |-> list2,
              frames |-> Append([frames EXCEPT ![n] = [g EXCEPT !.phase = "rematch"]],
                                Frame(list2.nodes[currentNode].prev, g.pos,
                                      TRUE, CauseOf(f.token, f.j), f.pend.reach))]
        ELSE [list |-> list2,
              frames |-> [frames EXCEPT ![n] = Advance(list2, g)]]

\* the splice of a rule without `inside`, from removeRange's result on
SpliceRest(frames, h) ==
    SpliceTail(h.list, frames, h.frame,
               Token(h.frame.token, h.frame.pend.matchStr, h.frame.rule.alias,
                     h.frame.pend.matchStr))

\* the stack with the top activation's list and frames taken from t
WithSplice(t) ==
    [stack EXCEPT ![Len(stack)].list = t.list, ![Len(stack)].frames = t.frames]

\* the activation B with its list and frames taken from t
WithSpliceOf(B, t) == [B EXCEPT !.list = t.list, !.frames = t.frames]

\* the activation that called the running one
Caller == stack[Len(stack) - 1]

\* the event of a splice by frame f (its pend still set) at depth, level
Spliced(kind, depth, level, f, node) ==
    [Event(kind, depth, level, f) EXCEPT
        !.node = node, !.start = f.pend.start, !.end = f.pend.reach,
        !.from = f.pend.from,
        !.len = Len(f.pend.matchStr), !.g1 = f.pend.g1,
        !.removeCount = f.pend.removeCount]

SplicedHead(kind, h, node) == Spliced(kind, Len(stack), Len(A.frames), h.frame, node)

\* a match of a rule without `inside`: the whole splice
Splice ==
    /\ AtString
    /\ Located.kind = "splice"
    /\ F.rule.inside = 0
    /\ stack' = WithSplice(SpliceRest(A.frames, SpliceHead(A.list, F, Located)))
    /\ ev' = SplicedHead("Splice", SpliceHead(A.list, F, Located),
                         LastNode(SpliceHead(A.list, F, Located).list) + 1)
    /\ UNCHANGED <<grammars, input, pc, ret, results, hooks, hl, log>>

\* the stack when Prism.tokenize(matchStr, inside) is called in the splice
WithInsideCall(h, inside) ==
    Append(WithListFrame(h.list, [h.frame EXCEPT !.phase = "inside"]),
           Activation(h.frame.pend.matchStr, inside))

\* a match of a rule with `inside`: the splice up to removeRange, then
\* Prism.tokenize(matchStr, inside) is called
SpliceInside ==
    /\ AtString
    /\ Located.kind = "splice"
    /\ F.rule.inside # 0
    /\ stack' = WithInsideCall(SpliceHead(A.list, F, Located), F.rule.inside)
    /\ grammars' = MergeRest(grammars, F.rule.inside)
    /\ ev' = SplicedHead("SpliceInside", SpliceHead(A.list, F, Located), 0)
    /\ UNCHANGED <<input, pc, ret, results, hooks, hl, log>>

\* the frame that called for a rematch, after the call: the reach the pass
\* arrived at is taken over and the node loop goes on
AfterRematch(list, caller, nested) ==
    Advance(list, [caller EXCEPT !.reach = IF caller.rematch /\ nested.reach > caller.reach
                                           THEN nested.reach ELSE caller.reach])

\* matchGrammar returns to the matchGrammar that called it for a rematch
RematchReturn ==
    /\ Running /\ F.phase = "ret"
    /\ Len(A.frames) > 1
    /\ stack' = [stack EXCEPT ![Len(stack)].frames =
                    Append(SubSeq(A.frames, 1, Len(A.frames) - 2),
                           AfterRematch(A.list, A.frames[Len(A.frames) - 1], F))]
    /\ ev' = Did("RematchReturn")
    /\ UNCHANGED <<grammars, input, pc, ret, results, hooks, hl, log>>

\* the activation B whose frame f waits for Prism.tokenize(matchStr,
\* inside), once that call has returned `content`
AfterInside(B, f, content) ==
    WithSpliceOf(B, SpliceTail(B.list, B.frames, f,
                               TokenOfStream(f.token, content, f.rule.alias,
                                             f.pend.matchStr)))

\* Prism.tokenize(matchStr, inside) returns toArray(tokenList) to the
\* matchGrammar that called it, which goes on with the splice
InsideReturn ==
    /\ Running /\ F.phase = "ret"
    /\ Len(A.frames) = 1
    /\ Len(stack) > 1
    /\ stack' = Append(SubSeq(stack, 1, Len(stack) - 2),
                       AfterInside(Caller, Caller.frames[Len(Caller.frames)],
                                   toArray(A.list)))
    /\ ret' = toArray(A.list)
    /\ ev' = Spliced("InsideReturn", Len(stack) - 1, Len(Caller.frames),
                     Caller.frames[Len(Caller.frames)], LastNode(Caller.list) + 1)
    /\ UNCHANGED <<grammars, input, pc, results, hooks, hl, log>>

\* the outermost Prism.tokenize returns toArray(tokenList)
Finish ==
    /\ Running /\ F.phase = "ret"
    /\ Len(A.frames) = 1
    /\ Len(stack) = 1
    /\ stack' = <<>>
    /\ ret' = toArray(A.list)
    /\ pc' = "ret"
    /\ ev' = Did("Finish")
    /\ UNCHANGED <<grammars, input, results, hooks, hl, log>>

\* a top-level tokenize call has returned; the same call is made once more
TokenizeReturn ==
    /\ pc = "ret"
    /\ ~hl.active
    /\ results' = Append(results, ret)
    /\ pc' = IF results = <<>> THEN "idle" ELSE "done"
    /\ ev' = Idle("TokenizeReturn")
    /\ UNCHANGED <<grammars, input, stack, ret, hooks, hl, log>>

\* ------------------------------------------------------------------------
\* Hook registry (hooks.add, hooks.run) and callbacks
\*
\* A callback is known by what it does to the env object it is given.
\* ------------------------------------------------------------------------

HookNames == {"before-tokenize", "after-tokenize", "wrap"}

\* useGrammar: env.grammar = grammar object 1; dropGrammar: env.grammar =
\* undefined; recode: env.code = "b"; rename: env.language = "other";
\* retoken: env.tokens = ["b"]; addClass: env.classes.push("x")
Callbacks == {"useGrammar", "dropGrammar", "recode", "rename", "retoken", "addClass"}

NoHooks == [n \in HookNames |-> <<>>]

\* what callback cb does to the env of Prism.highlight
Effect(cb, env) ==
    CASE cb = "useGrammar" -> [env EXCEPT !.grammar = 1]
      [] cb = "dropGrammar" -> [env EXCEPT !.grammar = 0]
      [] cb = "recode" -> [env EXCEPT !.code = <<"b">>]
      [] cb = "rename" -> [env EXCEPT !.language = "other"]
      [] cb = "retoken" -> [env EXCEPT !.tokens = <<Str(<<"b">>)>>]
      [] OTHER -> env

\* what callback cb does to the env of Token.stringify
WrapEffect(cb, env) ==
    CASE cb = "addClass" -> [env EXCEPT !.classes = Append(env.classes, "x")]
      [] cb = "rename" -> [env EXCEPT !.language = "other"]
      [] OTHER -> env

\* a list of callbacks with the callback put in front
Unshifted(callbacks, callback) == <<callback>> \o callbacks

\* allHooks[name].push(callback)
Pushed(callbacks, callback) == Append(callbacks, callback)

\* hooks.add(name, callback)
HooksAdd(name, callback) ==
    /\ pc = "idle"
    /\ ~hl.active
    /\ results = <<>>
    /\ Len(hooks["before-tokenize"]) + Len(hooks["after-tokenize"]) + Len(hooks["wrap"]) < MaxHooks
    /\ hooks' = [hooks EXCEPT ![name] = Pushed(hooks[name], callback)]
    /\ ev' = Idle("HooksAdd")
    /\ UNCHANGED <<grammars, input, stack, pc, ret, results, hl, log>>

\* hooks.run(name, env) from its i-th callback on, for the callbacks of
\* Token.stringify: the env they leave
RECURSIVE RunWrap(_, _, _)
RunWrap(callbacks, i, env) ==
    IF i > Len(callbacks) THEN env
    ELSE RunWrap(callbacks, i + 1, WrapEffect(callbacks[i], env))

\* ------------------------------------------------------------------------
\* util.encode and Token.stringify
\*
\* A rendering is a sequence of pieces: the characters of the text and the
\* strings of the markup.
\* ------------------------------------------------------------------------

\* tokens.replace(/&/g, '&amp;').replace(/</g, '&lt;').replace(/ /g, ' ')
RECURSIVE EncodeString(_)
EncodeString(s) ==
    IF s = <<>> THEN <<>>
    ELSE (CASE s[1] = "&" -> <<"&", "a", "m", "p", ";">>
            [] s[1] = "<" -> <<"&", "l", "t", ";">>
            [] s[1] = "nbsp" -> <<" ">>
            [] OTHER -> <<s[1]>>) \o EncodeString(Tail(s))

\* util.encode: a Token is rebuilt without matchedStr, its length is 0
RECURSIVE Encode(_)
RECURSIVE EncodeStream(_)
Encode(o) ==
    IF o.kind = "str" THEN Str(EncodeString(o.str))
    ELSE IF o.nested
         THEN TokenOfStream(o.type, EncodeStream(o.stream), o.alias, <<>>)
         ELSE Token(o.type, EncodeString(o.str), o.alias, <<>>)

EncodeStream(stream) ==
    IF stream = <<>> THEN <<>>
    ELSE <<Encode(stream[1])>> \o EncodeStream(Tail(stream))

\* env.classes.join(' ')
RECURSIVE Join(_)
Join(classes) ==
    IF classes = <<>> THEN <<>>
    ELSE IF Len(classes) = 1 THEN classes
    ELSE <<classes[1], " ">> \o Join(Tail(classes))

\* `<${env.tag} class="${env.classes.join(' ')}"${attributes}>${env.content}</${env.tag}>`
Render(env) ==
    <<"<", env.tag, " class=\"">> \o Join(env.classes) \o <<"\"">>
        \o env.attributes \o <<">">> \o env.content \o <<"</", env.tag, ">">>

\* an env whose class list starts with the type
TypeFirstEnv(o, content, language) ==
    [type |-> o.type, content |-> content, tag |-> "span",
     classes |-> <<o.type, "token">> \o o.alias,
     attributes |-> <<>>, language |-> language]

\* the env Token.stringify hands to the wrap hook
WrapEnv(o, content, language) ==
    [type |-> o.type, content |-> content, tag |-> "span",
     classes |-> <<"token", o.type>> \o o.alias,
     attributes |-> <<>>, language |-> language]

\* the calls of wrap callbacks one hooks.run('wrap', env) makes
WrapCalls(callbacks, type) ==
    [i \in 1..Len(callbacks) |-> [hook |-> "wrap", cb |-> callbacks[i], on |-> type]]

\* Token.stringify(o, language): the rendering and the wrap callbacks run
RECURSIVE Stringify(_, _, _)
RECURSIVE StringifyStream(_, _, _)
Stringify(o, language, callbacks) ==
    IF o.kind = "str" THEN [s |-> o.str, calls |-> <<>>]
    ELSE LET content == IF o.nested
                        THEN StringifyStream(o.stream, language, callbacks)
                        ELSE [s |-> o.str, calls |-> <<>>]
         IN  [s |-> Render(RunWrap(callbacks, 1, WrapEnv(o, content.s, language))),
              calls |-> content.calls \o WrapCalls(callbacks, o.type)]

\* a stringify that renders the elements of a stream from the right
RightToLeft(stream, language, callbacks) ==
    IF stream = <<>> THEN [s |-> <<>>, calls |-> <<>>]
    ELSE LET first == Stringify(stream[1], language, callbacks)
             others == StringifyStream(Tail(stream), language, callbacks)
         IN  [s |-> first.s \o others.s, calls |-> others.calls \o first.calls]

\* Token.stringify of an array: s += Token.stringify(e, language)
StringifyStream(stream, language, callbacks) ==
    IF stream = <<>> THEN [s |-> <<>>, calls |-> <<>>]
    ELSE LET first == Stringify(stream[1], language, callbacks)
             others == StringifyStream(Tail(stream), language, callbacks)
         IN  [s |-> first.s \o others.s, calls |-> first.calls \o others.calls]

\* ------------------------------------------------------------------------
\* Prism.highlight(text, grammar, language)
\* ------------------------------------------------------------------------

NoHighlight ==
    [active |-> FALSE, phase |-> "none", i |-> 0,
     env |-> [code |-> <<>>, grammar |-> 0, language |-> "", tokens |-> <<>>],
     out |-> <<>>, error |-> ""]

\* the hook hooks.run is running in the highlight call
HookOfPhase == IF hl.phase = "before" THEN "before-tokenize" ELSE "after-tokenize"

InHook == pc = "hook" /\ hl.active /\ hl.phase \in {"before", "after"}

\* Prism.highlight is called: env is built and hooks.run('before-tokenize',
\* env) starts
CallHighlight ==
    /\ pc = "idle"
    /\ ~hl.active
    /\ input.call = "highlight"
    /\ hl' = [NoHighlight EXCEPT !.active = TRUE, !.phase = "before", !.i = 1,
                                 !.env.code = input.text,
                                 !.env.grammar = input.g,
                                 !.env.language = input.language]
    /\ pc' = "hook"
    /\ log' = <<>>
    /\ ev' = Idle("CallHighlight")
    /\ UNCHANGED <<grammars, input, stack, ret, results, hooks>>

\* hooks.run: the next callback of the hook is called with env
RunCallback ==
    /\ InHook
    /\ hl.i <= Len(hooks[HookOfPhase])
    /\ hl' = [hl EXCEPT !.env = Effect(hooks[HookOfPhase][hl.i], hl.env),
                        !.i = hl.i + 1]
    /\ log' = Append(log, [hook |-> HookOfPhase, cb |-> hooks[HookOfPhase][hl.i], on |-> ""])
    /\ ev' = Idle("RunCallback")
    /\ UNCHANGED <<grammars, input, stack, pc, ret, results, hooks>>

\* the language argument of the highlight call
ArgLanguage(env) == input.language

\* the language the error of Prism.highlight names
ErrorLanguage(env) == env.language

\* if (!env.grammar) throw new Error(`... No grammar found for language
\* "${env.language}".`)
NoGrammar ==
    /\ InHook /\ hl.phase = "before"
    /\ hl.i > Len(hooks[HookOfPhase])
    /\ hl.env.grammar = 0
    /\ hl' = [hl EXCEPT !.phase = "threw", !.error = ErrorLanguage(hl.env)]
    /\ pc' = "threw"
    /\ ev' = Idle("NoGrammar")
    /\ UNCHANGED <<grammars, input, stack, ret, results, hooks, log>>

\* the text argument of the highlight call with env.grammar
ArgText(env) == [text |-> input.text, g |-> env.grammar]

\* the arguments of the call Prism.tokenize(env.code, env.grammar)
TokenizeArgs(env) == [text |-> env.code, g |-> env.grammar]

\* env.tokens = Prism.tokenize(env.code, env.grammar): the call
HighlightTokenize ==
    /\ InHook /\ hl.phase = "before"
    /\ hl.i > Len(hooks[HookOfPhase])
    /\ hl.env.grammar # 0
    /\ hl' = [hl EXCEPT !.phase = "tokenize"]
    /\ pc' = "run"
    /\ grammars' = MergeRest(grammars, TokenizeArgs(hl.env).g)
    /\ stack' = << Activation(TokenizeArgs(hl.env).text, TokenizeArgs(hl.env).g) >>
    /\ log' = Append(log, [hook |-> "tokenize", cb |-> "", on |-> ""])
    /\ ev' = Idle("HighlightTokenize")
    /\ UNCHANGED <<input, ret, results, hooks>>

\* env.tokens = Prism.tokenize(env.code, env.grammar): the assignment, and
\* hooks.run('after-tokenize', env) starts
HighlightTokens ==
    /\ pc = "ret"
    /\ hl.active
    /\ hl' = [hl EXCEPT !.phase = "after", !.i = 1, !.env.tokens = ret]
    /\ pc' = "hook"
    /\ ev' = Idle("HighlightTokens")
    /\ UNCHANGED <<grammars, input, stack, ret, results, hooks, log>>

\* the tokens Prism.highlight hands to Token.stringify
StringifyArg(env) == EncodeStream(env.tokens)

\* return Token.stringify(util.encode(env.tokens), env.language)
HighlightReturn ==
    /\ InHook /\ hl.phase = "after"
    /\ hl.i > Len(hooks[HookOfPhase])
    /\ hl' = [hl EXCEPT !.phase = "returned",
                        !.out = StringifyStream(StringifyArg(hl.env), hl.env.language,
                                                hooks["wrap"]).s]
    /\ log' = log \o StringifyStream(StringifyArg(hl.env), hl.env.language,
                                     hooks["wrap"]).calls
    /\ pc' = "done"
    /\ ev' = Idle("HighlightReturn")
    /\ UNCHANGED <<grammars, input, stack, ret, results, hooks>>

\* ------------------------------------------------------------------------
\* Inputs: texts and grammars
\* ------------------------------------------------------------------------

Alphabet == {"a", "b"}

RECURSIVE TextsOfLen(_)
TextsOfLen(n) ==
    IF n = 0 THEN {<<>>}
    ELSE {<<c>> \o t : c \in Alphabet, t \in TextsOfLen(n - 1)}

Texts == UNION {TextsOfLen(n) : n \in 0..MaxLen}

One(c) == Atom({c}, "one")

\* /a/
PatA == Pat(<<One("a")>>, 0, FALSE, FALSE, {})

\* /b+/
PatBs == Pat(<<Atom({"b"}, "plus")>>, 0, FALSE, FALSE, {})

\* /a+/
PatAs == Pat(<<Atom({"a"}, "plus")>>, 0, FALSE, FALSE, {})

\* /ba/
PatBA == Pat(<<One("b"), One("a")>>, 0, FALSE, FALSE, {})

\* /(a)b/
PatLookAB == Pat(<<One("a"), One("b")>>, 1, TRUE, FALSE, {})

\* /(b)a+/
PatLookBAs == Pat(<<One("b"), Atom({"a"}, "plus")>>, 1, TRUE, FALSE, {})

\* /b*/
PatBStar == Pat(<<Atom({"b"}, "star")>>, 0, FALSE, FALSE, {})

\* /ab/
PatAB == Pat(<<One("a"), One("b")>>, 0, FALSE, FALSE, {})

\* /(^)a/
PatStartA == Pat(<<One("a")>>, 0, TRUE, TRUE, {})

\* /b/
PatB == Pat(<<One("b")>>, 0, FALSE, FALSE, {})

\* /x/
PatX == Pat(<<One("x")>>, 0, FALSE, FALSE, {})

\* /(^)x/
PatStartX == Pat(<<One("x")>>, 0, TRUE, TRUE, {})

\* /\w+/
PatWord == Pat(<<Atom(Word, "plus")>>, 0, FALSE, FALSE, {})

\* /\w+\s\w+/
PatPhrase == Pat(<<Atom(Word, "plus"), Atom(Space, "one"), Atom(Word, "plus")>>,
                 0, FALSE, FALSE, {})

\* the rules enumerated grammars are built from
PoolRules ==
    << Rule(PatA, FALSE, FALSE, 0),
       Rule(PatAs, FALSE, FALSE, 0),
       Rule(PatBs, FALSE, TRUE, 0),
       Rule(PatBA, FALSE, TRUE, 0),
       Rule(PatLookAB, TRUE, FALSE, 0),
       Rule(PatLookBAs, TRUE, TRUE, 0),
       Rule(PatBStar, FALSE, FALSE, 0),
       Rule(PatAB, FALSE, FALSE, 2),
       Rule(PatStartA, TRUE, FALSE, 0) >>

KeyNames == <<"k1", "k2", "k3", "k4", "k5">>

RECURSIVE RuleSeqs(_)
RuleSeqs(n) ==
    IF n = 0 THEN {<<>>}
    ELSE {Append(rs, r) : rs \in RuleSeqs(n - 1), r \in 1..Len(PoolRules)}

\* the grammar {k1: rule, k2: rule, ...}
PoolGrammar(rs) ==
    Grammar([i \in 1..Len(rs) |-> Key(KeyNames[i], <<PoolRules[rs[i]]>>)], 0)

\* the grammar of `inside` of PatAB's rule: {inner: /b/, rest: {tail: /a/}}
InnerGrammar == Grammar(<<Key("inner", <<Rule(PatB, FALSE, FALSE, 0)>>)>>, 3)

TailGrammar == Grammar(<<Key("tail", <<Rule(PatA, FALSE, FALSE, 0)>>)>>, 0)

Config(gs, g, text) == [grammars |-> gs, g |-> g, text |-> text]

PoolConfigs ==
    {Config(<<PoolGrammar(rs), InnerGrammar, TailGrammar>>, 1, t) :
        rs \in UNION {RuleSeqs(n) : n \in 0..MaxKeys}, t \in Texts}

\* {a: /x/, b: /x/}
TwoKeysGrammar ==
    Grammar(<<Key("a", <<Rule(PatX, FALSE, FALSE, 0)>>),
              Key("b", <<Rule(PatX, FALSE, FALSE, 0)>>)>>, 0)

\* {a: [{pattern: /x/, alias: ['first']}, {pattern: /x/, alias: ['second']}]}
TwoRulesGrammar ==
    Grammar(<<Key("a", <<Aliased(Rule(PatX, FALSE, FALSE, 0), <<"first">>),
                         Aliased(Rule(PatX, FALSE, FALSE, 0), <<"second">>)>>)>>, 0)

\* {word: /\w+/, phrase: {pattern: /\w+\s\w+/, greedy: true}}
WordPhraseGrammar ==
    Grammar(<<Key("word", <<Rule(PatWord, FALSE, FALSE, 0)>>),
              Key("phrase", <<Rule(PatPhrase, FALSE, TRUE, 0)>>)>>, 0)

\* {phrase: {pattern: /\w+\s\w+/, greedy: true}, word: /\w+/}
PhraseWordGrammar ==
    Grammar(<<Key("phrase", <<Rule(PatPhrase, FALSE, TRUE, 0)>>),
              Key("word", <<Rule(PatWord, FALSE, FALSE, 0)>>)>>, 0)

\* {look: {pattern: /(^)x/, lookbehind: true}}
StartXGrammar == Grammar(<<Key("look", <<Rule(PatStartX, TRUE, FALSE, 0)>>)>>, 0)

\* {k1: /b/, k2: /a+/, rest: {k2: /ab/, k3: /b+/}}
RestGrammar ==
    Grammar(<<Key("k1", <<Rule(PatB, FALSE, FALSE, 0)>>),
              Key("k2", <<Rule(PatAs, FALSE, FALSE, 0)>>)>>, 2)

RestOfRestGrammar ==
    Grammar(<<Key("k2", <<Rule(PatAB, FALSE, FALSE, 0)>>),
              Key("k3", <<Rule(PatBs, FALSE, FALSE, 0)>>)>>, 0)

\* /(b)x*/
PatLookBXs == Pat(<<One("b"), Atom({"x"}, "star")>>, 1, TRUE, FALSE, {})

\* /aa/
PatAA == Pat(<<One("a"), One("a")>>, 0, FALSE, FALSE, {})

\* {k1: {pattern: /(b)x*/, lookbehind: true}, k2: /ab/,
\*  k3: {pattern: /aa/, greedy: true}}
ValveGrammar ==
    Grammar(<<Key("k1", <<Rule(PatLookBXs, TRUE, FALSE, 0)>>),
              Key("k2", <<Rule(PatAB, FALSE, FALSE, 0)>>),
              Key("k3", <<Rule(PatAA, FALSE, TRUE, 0)>>)>>, 0)

\* {k1: undefined, k2: [/a/, {pattern: /b+/dy, greedy: true}]}
FalsyGrammar ==
    Grammar(<<FalsyKey("k1"),
              Key("k2", <<Rule(PatA, FALSE, FALSE, 0),
                          Rule([PatBs EXCEPT !.flags = {"d", "y"}], FALSE, TRUE, 0)>>)>>, 0)

TextAbCd == <<"a", "b", " ", "c", "d">>

ExampleConfigs ==
    {Config(<<TwoKeysGrammar>>, 1, t) : t \in {<<"x">>, <<"x", "x">>}}
    \cup {Config(<<TwoRulesGrammar>>, 1, t) : t \in {<<"x">>, <<"x", "x">>}}
    \cup {Config(<<WordPhraseGrammar>>, 1, TextAbCd),
          Config(<<PhraseWordGrammar>>, 1, TextAbCd),
          Config(<<StartXGrammar>>, 1, <<"x">>),
          Config(<<StartXGrammar>>, 1, <<"x", "x">>),
          Config(<<ValveGrammar>>, 1, <<"x", "a", "a", "b", "b">>)}
    \cup {Config(<<RestGrammar, RestOfRestGrammar>>, 1, t) : t \in Texts}
    \cup {Config(<<FalsyGrammar>>, 1, t) : t \in Texts}

\* /c/
PatC == Pat(<<One("c")>>, 0, FALSE, FALSE, {})

\* /bc/
PatBC == Pat(<<One("b"), One("c")>>, 0, FALSE, FALSE, {})

\* /xa/
PatXA == Pat(<<One("x"), One("a")>>, 0, FALSE, FALSE, {})

\* {k1: /ab/, k2: /c/, k3: {pattern: /bc/, greedy: true},
\*  k4: {pattern: /xa/, greedy: true}}
ReachGrammar ==
    Grammar(<<Key("k1", <<Rule(PatAB, FALSE, FALSE, 0)>>),
              Key("k2", <<Rule(PatC, FALSE, FALSE, 0)>>),
              Key("k3", <<Rule(PatBC, FALSE, TRUE, 0)>>),
              Key("k4", <<Rule(PatXA, FALSE, TRUE, 0)>>)>>, 0)

\* {k1: {pattern: /ab/, inside: InnerGrammar},
\*  k2: {pattern: /(b)a+/, lookbehind: true, greedy: true},
\*  k3: {pattern: /ba/, greedy: true}}
GreedyRematchGrammar == PoolGrammar(<<8, 6, 4>>)

\* /^d/
PatStartD == Pat(<<One("d")>>, 0, FALSE, TRUE, {})

\* /cd/
PatCD == Pat(<<One("c"), One("d")>>, 0, FALSE, FALSE, {})

\* {k0: /^d/, k1: /ab/, k2: /cd/, k3: {pattern: /bc/, greedy: true},
\*  k4: {pattern: /xa/, greedy: true}}
NestGrammar ==
    Grammar(<<Key("k0", <<Rule(PatStartD, FALSE, FALSE, 0)>>),
              Key("k1", <<Rule(PatAB, FALSE, FALSE, 0)>>),
              Key("k2", <<Rule(PatCD, FALSE, FALSE, 0)>>),
              Key("k3", <<Rule(PatBC, FALSE, TRUE, 0)>>),
              Key("k4", <<Rule(PatXA, FALSE, TRUE, 0)>>)>>, 0)

\* texts on which a rematch pass makes greedy splices
RematchConfigs ==
    {Config(<<ReachGrammar>>, 1, <<"x", "a", "b", "c">>),
     Config(<<NestGrammar>>, 1, <<"x", "a", "b", "c", "d">>),
     Config(<<GreedyRematchGrammar, InnerGrammar, TailGrammar>>, 1,
            <<"b", "a", "b", "a">>)}

\* {k1: {pattern: /(b)x*/, lookbehind: true}}
EmptyTokenGrammar ==
    Grammar(<<Key("k1", <<Rule(PatLookBXs, TRUE, FALSE, 0)>>)>>, 0)

\* texts every character of which is followed by an empty match
ValveConfigs ==
    {Config(<<EmptyTokenGrammar>>, 1, <<"b", "b", "b">>),
     Config(<<EmptyTokenGrammar>>, 1, <<"b", "b", "b", "b">>)}

Configs == PoolConfigs \cup ExampleConfigs \cup RematchConfigs \cup ValveConfigs

\* ------------------------------------------------------------------------
\* Specification: Prism.tokenize(text, grammar), called twice on the same
\* grammar object
\* ------------------------------------------------------------------------

Init ==
    /\ \E c \in Configs :
          /\ grammars = c.grammars
          /\ input = [call |-> "tokenize", text |-> c.text, g |-> c.g, language |-> "x"]
    /\ stack = <<>>
    /\ pc = "idle"
    /\ ret = <<>>
    /\ results = <<>>
    /\ ev = Idle("Init")
    /\ hooks = NoHooks
    /\ hl = NoHighlight
    /\ log = <<>>

Next ==
    \/ CallTokenize
    \/ GrammarDone
    \/ RuleSkip
    \/ CauseReturn
    \/ RuleStart
    \/ LoopExit
    \/ ReachBreak
    \/ Abort
    \/ SkipToken
    \/ MatchBreak
    \/ MatchContinue
    \/ Splice
    \/ SpliceInside
    \/ RematchReturn
    \/ InsideReturn
    \/ Finish
    \/ TokenizeReturn

Spec == Init /\ [][Next]_vars

\* The same calls with the arguments chosen by a first step, every call
\* being carried on until it returns.
InitFair ==
    /\ grammars = <<>>
    /\ input = [call |-> "tokenize", text |-> <<>>, g |-> 0, language |-> "x"]
    /\ stack = <<>>
    /\ pc = "new"
    /\ ret = <<>>
    /\ results = <<>>
    /\ ev = Idle("Init")
    /\ hooks = NoHooks
    /\ hl = NoHighlight
    /\ log = <<>>

\* the caller picks the text and the grammar
ChooseInput ==
    /\ pc = "new"
    /\ \E c \in Configs :
          /\ grammars' = c.grammars
          /\ input' = [input EXCEPT !.text = c.text, !.g = c.g]
    /\ pc' = "idle"
    /\ ev' = Idle("ChooseInput")
    /\ UNCHANGED <<stack, ret, results, hooks, hl, log>>

NextFair == ChooseInput \/ Next

\* a step is possible exactly when no call has ended
CanStep == pc \notin {"done", "threw"}

\* Weak fairness of the steps, WF_vars(NextFair), written with CanStep for
\* ENABLED <<NextFair>>_vars: the interpreter runs the calls on as long as
\* a step is possible.
Fairness == []<>(~CanStep) \/ []<><<NextFair>>_vars

FairSpec == InitFair /\ [][NextFair]_vars /\ Fairness

\* ------------------------------------------------------------------------
\* Specification: hooks.add calls, then Prism.highlight(text, grammar,
\* language)
\* ------------------------------------------------------------------------

\* {k1: /a/, k2: {pattern: /ba/, greedy: true}}
RematchGrammar ==
    Grammar(<<Key("k1", <<Rule(PatA, FALSE, FALSE, 0)>>),
              Key("k2", <<Rule(PatBA, FALSE, TRUE, 0)>>)>>, 0)

\* {k1: {pattern: /ab/, inside: InnerGrammar}, k2: /b*/}
NestedGrammar ==
    Grammar(<<Key("k1", <<Rule(PatAB, FALSE, FALSE, 2)>>),
              Key("k2", <<Rule(PatBStar, FALSE, FALSE, 0)>>)>>, 0)

\* /1/
PatOne == Pat(<<One("1")>>, 0, FALSE, FALSE, {})

\* {number: /1/, letter: {pattern: /a/, alias: ['vowel', 'lower']}}
NumberGrammar ==
    Grammar(<<Key("number", <<Rule(PatOne, FALSE, FALSE, 0)>>),
              Key("letter", <<Aliased(Rule(PatA, FALSE, FALSE, 0), <<"vowel", "lower">>)>>)>>, 0)

HighlightGrammars ==
    <<RematchGrammar, InnerGrammar, TailGrammar, NestedGrammar, NumberGrammar>>

\* the grammar argument: undefined or a grammar object
HighlightConfigs ==
    {Config(HighlightGrammars, g, t) :
        g \in {0, 1, 4}, t \in {<<>>, <<"a", "b">>, <<"b", "a", "a">>}}
        \cup {Config(HighlightGrammars, 5, t) : t \in {<<"1">>, <<"1", "a">>}}
        \cup {Config(HighlightGrammars, 4, <<"a", "b", "a">>)}

InitHL ==
    /\ \E c \in HighlightConfigs :
          /\ grammars = c.grammars
          /\ input = [call |-> "highlight", text |-> c.text, g |-> c.g, language |-> "x"]
    /\ stack = <<>>
    /\ pc = "idle"
    /\ ret = <<>>
    /\ results = <<>>
    /\ ev = Idle("Init")
    /\ hooks = NoHooks
    /\ hl = NoHighlight
    /\ log = <<>>

AddHook == \E name \in HookNames, callback \in Callbacks : HooksAdd(name, callback)

NextHL ==
    \/ AddHook
    \/ CallHighlight
    \/ RunCallback
    \/ NoGrammar
    \/ HighlightTokenize
    \/ HighlightTokens
    \/ HighlightReturn
    \/ GrammarDone
    \/ RuleSkip
    \/ CauseReturn
    \/ RuleStart
    \/ LoopExit
    \/ ReachBreak
    \/ Abort
    \/ SkipToken
    \/ MatchBreak
    \/ MatchContinue
    \/ Splice
    \/ SpliceInside
    \/ RematchReturn
    \/ InsideReturn
    \/ Finish

SpecHL == InitHL /\ [][NextHL]_vars

\* ------------------------------------------------------------------------
\* Specification: hooks.add calls, then one hooks.run(name, env) call
\*
\* The log holds the hooks.add calls and the calls of callbacks, in order;
\* the entry of a callback's call holds the env it was given.
\* ------------------------------------------------------------------------

\* most hooks.add calls before the hooks.run call
MaxAdds == 3

\* hooks.add(name, callback), the call entered in the log
HooksAddCall(name, callback) ==
    /\ pc = "idle"
    /\ input.call = "run"
    /\ Len(log) < MaxAdds
    /\ hooks' = [hooks EXCEPT ![name] = Pushed(hooks[name], callback)]
    /\ log' = Append(log, [hook |-> name, cb |-> callback, on |-> "add"])
    /\ ev' = Idle("HooksAddCall")
    /\ UNCHANGED <<grammars, input, stack, pc, ret, results, hl>>

\* for (const callback of callbacks) callback(env), from the i-th callback
\* on: r.env is the env object as the callbacks called so far left it,
\* r.calls the calls made
RECURSIVE RunFrom(_, _, _, _)
RunFrom(name, callbacks, i, r) ==
    IF i > Len(callbacks) THEN r
    ELSE RunFrom(name, callbacks, i + 1,
                 [env |-> Effect(callbacks[i], r.env),
                  calls |-> Append(r.calls, [hook |-> name, cb |-> callbacks[i],
                                             on |-> "run", env |-> r.env])])

\* hooks.run(name, env)
HooksRun(all, name, env) ==
    IF Len(all[name]) = 0 THEN [env |-> env, calls |-> <<>>]
    ELSE RunFrom(name, all[name], 1, [env |-> env, calls |-> <<>>])

\* the call hooks.run(input.name, input.env): hl.env is the env object
\* after it
HooksRunCall ==
    /\ pc = "idle"
    /\ input.call = "run"
    /\ hl' = [hl EXCEPT !.env = HooksRun(hooks, input.name, input.env).env]
    /\ log' = log \o HooksRun(hooks, input.name, input.env).calls
    /\ pc' = "done"
    /\ ev' = Idle("HooksRunCall")
    /\ UNCHANGED <<grammars, input, stack, ret, results, hooks>>

\* the env objects of the enumerated hooks.run calls
RunEnvs ==
    {[code |-> t, grammar |-> 0, language |-> "x", tokens |-> <<>>] :
        t \in {<<>>, <<"a">>}}

InitHooks ==
    /\ \E name \in HookNames, env \in RunEnvs :
          input = [call |-> "run", name |-> name, env |-> env]
    /\ grammars = <<>>
    /\ stack = <<>>
    /\ pc = "idle"
    /\ ret = <<>>
    /\ results = <<>>
    /\ ev = Idle("Init")
    /\ hooks = NoHooks
    /\ hl = NoHighlight
    /\ log = <<>>

AddCall == \E name \in HookNames, callback \in Callbacks : HooksAddCall(name, callback)

NextHooks ==
    \/ AddCall
    \/ HooksRunCall

SpecHooks == InitHooks /\ [][NextHooks]_vars

\* ------------------------------------------------------------------------
\* Objects of the language registry
\*
\* In the specification of the registry methods the variable grammars is
\* the heap of mappings ("Object") and lists ("Array"), an object's
\* identity being its index.  A value is a reference to an object of the
\* heap or a primitive (a RegExp, a string, undefined), which util.type
\* gives another type than 'Object' and 'Array'.
\* ------------------------------------------------------------------------

Prim(s) == [ref |-> 0, prim |-> s]

Ref(n) == [ref |-> n, prim |-> ""]

Undefined == Prim("undefined")

\* {k1: v1, ...}: the keys in the order of Object.keys
Obj(keys, vals) == [kind |-> "Object", keys |-> keys, vals |-> vals]

IndexNames == <<"0", "1", "2">>

\* [v1, ...]
Arr(vals) == [kind |-> "Array", keys |-> SubSeq(IndexNames, 1, Len(vals)), vals |-> vals]

\* the object Prism.languages
Languages == 1

\* Object.hasOwn(o, key)
HasOwn(o, key) == \E i \in 1..Len(o.keys) : o.keys[i] = key

\* the place of an own key in Object.keys(o)
IndexOf(o, key) == CHOOSE i \in 1..Len(o.keys) : o.keys[i] = key

\* o[key]
Get(o, key) == IF HasOwn(o, key) THEN o.vals[IndexOf(o, key)] ELSE Undefined

\* o[key] = value where a key the object has moves to the end
PutLast(o, key, value) ==
    [o EXCEPT !.keys = Append(SelectSeq(o.keys, LAMBDA k : k # key), key),
              !.vals = Append([i \in 1..Len(SelectSeq(o.keys, LAMBDA k : k # key)) |->
                                  o.vals[CHOOSE j \in 1..Len(o.keys) :
                                            o.keys[j] = SelectSeq(o.keys, LAMBDA k : k # key)[i]]],
                              value)]

\* o[key] = value: a key the object has keeps its place, a new key goes to
\* the end
Put(o, key, value) ==
    IF HasOwn(o, key)
    THEN [o EXCEPT !.vals[IndexOf(o, key)] = value]
    ELSE [o EXCEPT !.keys = Append(o.keys, key), !.vals = Append(o.vals, value)]

\* the heap after heap[n][key] = value
SetProp(heap, n, key, value) == [heap EXCEPT ![n] = Put(heap[n], key, value)]

\* the heap with a new empty mapping, whatever the kind
AllocMapping(heap, kind) == Append(heap, [kind |-> "Object", keys |-> <<>>, vals |-> <<>>])

\* the heap with a new empty object of the kind, at Len(heap) + 1
Alloc(heap, kind) == Append(heap, [kind |-> kind, keys |-> <<>>, vals |-> <<>>])

\* new WeakMap, new Map: no object of the heap visited
NoneVisited(heap) == [n \in 1..Len(heap) |-> 0]

\* ------------------------------------------------------------------------
\* util.clone(o, visited)
\* ------------------------------------------------------------------------

\* a copy of the object itself only: its properties refer to the objects
\* the properties of o refer to
ShallowCopy(heap, visited, o) ==
    IF o.ref = 0
    THEN [heap |-> heap, visited |-> visited, val |-> o]
    ELSE [heap |-> Append(heap, heap[o.ref]), visited |-> visited,
          val |-> Ref(Len(heap) + 1)]

\* util.clone(o, visited): visited maps an object to its clone (0: none);
\* the result is the heap with the clones, the visited map and the value
\* returned
RECURSIVE clone(_, _, _)
RECURSIVE CloneProps(_, _, _, _)
RECURSIVE CloneNext(_, _, _, _)
clone(heap, visited, o) ==
    IF o.ref = 0
    THEN [heap |-> heap, visited |-> visited, val |-> o]
    ELSE IF visited[o.ref] # 0
    THEN [heap |-> heap, visited |-> visited, val |-> Ref(visited[o.ref])]
    ELSE CloneProps(Alloc(heap, heap[o.ref].kind),
                    [visited EXCEPT ![o.ref] = Len(heap) + 1],
                    o.ref, 1)

\* for (const key of Object.keys(o)), o.forEach: from the i-th property on
CloneProps(heap, visited, n, i) ==
    IF i > Len(heap[n].keys)
    THEN [heap |-> heap, visited |-> visited, val |-> Ref(visited[n])]
    ELSE CloneNext(clone(heap, visited, heap[n].vals[i]), visited[n], n, i)

\* clone[key] = util.clone(o[key], visited), and the next property
CloneNext(r, c, n, i) ==
    CloneProps(SetProp(r.heap, c, r.heap[n].keys[i], r.val), r.visited, n, i + 1)

\* ------------------------------------------------------------------------
\* LanguageMethods: extend, insertBefore, DFS
\* ------------------------------------------------------------------------

\* Object.assign(target, source), from the i-th key of source on
RECURSIVE Assign(_, _, _, _)
Assign(heap, target, source, i) ==
    IF i > Len(heap[source].keys) THEN heap
    ELSE Assign(SetProp(heap, target, heap[source].keys[i], heap[source].vals[i]),
                target, source, i + 1)

\* Object.assign(util.clone(...), redef), the clone made
Assigned(r, redef) == [heap |-> Assign(r.heap, r.val.ref, redef, 1), val |-> r.val]

\* extend(id, redef) for a registered id
extend(heap, id, redef) ==
    Assigned(clone(heap, NoneVisited(heap), Get(heap[Languages], id)), redef)

\* for (const newToken of Object.keys(insert)) ret[newToken] = insert[newToken]
RECURSIVE InsertAll(_, _, _, _)
InsertAll(heap, made, insert, i) ==
    IF i > Len(heap[insert].keys) THEN heap
    ELSE InsertAll(SetProp(heap, made, heap[insert].keys[i], heap[insert].vals[i]),
                   made, insert, i + 1)

\* ret[token] = grammar[token] without the test
KeepAll(heap, made, grammar, insert, token) ==
    SetProp(heap, made, token, Get(heap[grammar], token))

\* if (!Object.hasOwn(insert, token)) ret[token] = grammar[token]
KeepOwn(heap, made, grammar, insert, token) ==
    IF HasOwn(heap[insert], token) THEN heap
    ELSE SetProp(heap, made, token, Get(heap[grammar], token))

\* for (const token of Object.keys(grammar)): from the i-th key on; made is
\* the object `ret`
RECURSIVE BuildRet(_, _, _, _, _, _)
\* a loop that ends by assigning the rules passed once more
BuildThenInsert(heap, made, grammar, before, insert, i) ==
    IF i > Len(heap[grammar].keys) THEN InsertAll(heap, made, insert, 1)
    ELSE BuildRet(KeepOwn(IF heap[grammar].keys[i] = before
                          THEN InsertAll(heap, made, insert, 1) ELSE heap,
                          made, grammar, insert, heap[grammar].keys[i]),
                  made, grammar, before, insert, i + 1)

BuildRet(heap, made, grammar, before, insert, i) ==
    IF i > Len(heap[grammar].keys) THEN heap
    ELSE BuildRet(KeepOwn(IF heap[grammar].keys[i] = before
                          THEN InsertAll(heap, made, insert, 1) ELSE heap,
                          made, grammar, insert, heap[grammar].keys[i]),
                  made, grammar, before, insert, i + 1)

\* (key, value) => { if (value === old && key !== inside)
\* Prism.languages[key] = ret }
Rewrite(heap, key, value, c) ==
    IF value.ref # 0 /\ value.ref = c.old /\ key # c.inside
    THEN SetProp(heap, Languages, key, Ref(c.ret))
    ELSE heap

\* DFS(o, callback, type, visited) with the callback of insertBefore:
\* from the i-th of the keys Object.keys(o) gave on
RECURSIVE DFS(_, _, _, _, _, _)
RECURSIVE DFSProperty(_, _, _, _, _, _)
RECURSIVE DFSNext(_, _, _, _, _)
DFS(heap, visited, o, keys, i, c) ==
    IF i > Len(keys) THEN [heap |-> heap, visited |-> visited]
    ELSE DFSProperty(Rewrite(heap, keys[i], Get(heap[o], keys[i]), c),
                     visited, o, keys, i, c)

\* const property = o[i], and the recursion into an object or array not
\* visited before
DFSProperty(heap, visited, o, keys, i, c) ==
    IF Get(heap[o], keys[i]).ref # 0 /\ visited[Get(heap[o], keys[i]).ref] = 0
    THEN DFSNext(DFS(heap, [visited EXCEPT ![Get(heap[o], keys[i]).ref] = 1],
                     Get(heap[o], keys[i]).ref,
                     heap[Get(heap[o], keys[i]).ref].keys, 1, c),
                 o, keys, i, c)
    ELSE DFS(heap, visited, o, keys, i + 1, c)

DFSNext(r, o, keys, i, c) == DFS(r.heap, r.visited, o, keys, i + 1, c)

\* this.DFS(Prism.languages, callback): the heap it leaves
Replaced(heap, c) ==
    DFS(heap, NoneVisited(heap), Languages, heap[Languages].keys, 1, c).heap

\* an insertion that assigns the rules to the old mapping itself and returns
\* it
InsertInPlace(heap, inside, before, insert, root) ==
    [heap |-> Assign(heap, Get(heap[root], inside).ref, insert, 1),
     val |-> Get(heap[root], inside)]

\* insertBefore(inside, before, insert, root) for root[inside] a mapping:
\* the heap after the call and the mapping returned
insertBefore(heap, inside, before, insert, root) ==
    [heap |-> Replaced(SetProp(BuildRet(Alloc(heap, "Object"), Len(heap) + 1,
                                        Get(heap[root], inside).ref, before, insert, 1),
                               root, inside, Ref(Len(heap) + 1)),
                       [old |-> Get(heap[root], inside).ref, inside |-> inside,
                        ret |-> Len(heap) + 1]),
     val |-> Ref(Len(heap) + 1)]
\* ------------------------------------------------------------------------
\* Specification: one call of util.clone, extend or insertBefore on a
\* registry, then an assignment to a property reached through the result
\* ------------------------------------------------------------------------

\* the mapping of the rules passed to extend and insertBefore
Redef == 10

\* the key lists of the rules passed
RedefKeys ==
    {<<>>, <<"comment">>, <<"color", "comment">>, <<"tag", "color">>,
     <<"color", "extra">>, <<"attr-name", "string">>}

\* the first of the rules passed: a RegExp, a new rule object (11), or the
\* rule object of markup's tag
RedefValues == {Prim("/r1/"), Ref(11), Ref(5)}

\* a registry of three languages:
\*  1 Prism.languages {plaintext: 2, markup: 3, other: x}
\*  3 {comment: /c/, tag: 5, entity: 7}     4 {string: /s/, tag: 6}
\*  5 {pattern: /t/, inside: y}             6 {pattern: /u/, inside: z}
\*  7 [/e/, w]                              8 {punctuation: /p/, attr-name: 9}
\*  9 {pattern: /n/, alias: "x"}
\* 10 the rules passed                     11 {pattern: /r/, inside: ri}
RegistryHeap(x, y, z, w, rk, rv, ri) ==
    << Obj(<<"plaintext", "markup", "other">>, <<Ref(2), Ref(3), Ref(x)>>),
       Obj(<<>>, <<>>),
       Obj(<<"comment", "tag", "entity">>, <<Prim("/c/"), Ref(5), Ref(7)>>),
       Obj(<<"string", "tag">>, <<Prim("/s/"), Ref(6)>>),
       Obj(<<"pattern", "inside">>, <<Prim("/t/"), Ref(y)>>),
       Obj(<<"pattern", "inside">>, <<Prim("/u/"), Ref(z)>>),
       Arr(<<Prim("/e/"), Ref(w)>>),
       Obj(<<"punctuation", "attr-name">>, <<Prim("/p/"), Ref(9)>>),
       Obj(<<"pattern", "alias">>, <<Prim("/n/"), Prim("x")>>),
       Obj(rk, SubSeq(<<rv, Prim("/r2/")>>, 1, Len(rk))),
       Obj(<<"pattern", "inside">>, <<Prim("/r/"), Ref(ri)>>) >>

\* `other` is markup itself or a grammar of its own; a rule's inside is its
\* own grammar (a cycle), another language or a nested grammar; the list
\* holds the rule of tag (a second reference to it) or another rule
RegistryHeaps ==
    {RegistryHeap(x, y, z, w, rk, rv, ri) :
        x \in {3, 4}, y \in {3, 4, 8}, z \in {3, 8}, w \in {5, 9},
        rk \in RedefKeys, rv \in RedefValues, ri \in {3, 8}}

\* the call made and its arguments, with the heap as it was before it
NoCall ==
    [call |-> "none", heap |-> <<>>, id |-> "", before |-> "", root |-> 0, o |-> Undefined]

InitLang ==
    /\ grammars \in {h \in RegistryHeaps :
                        (h[Redef].keys = <<>> \/ h[Redef].vals[1] # Ref(11))
                            => h[11].vals[2] = Ref(8)}
    /\ input = NoCall
    /\ stack = <<>>
    /\ pc = "idle"
    /\ ret = Undefined
    /\ results = <<>>
    /\ ev = Idle("Init")
    /\ hooks = NoHooks
    /\ hl = NoHighlight
    /\ log = <<>>

\* the values util.clone is called on
CloneArgs == {Ref(Languages), Ref(3), Ref(5), Ref(7), Prim("/c/")}

\* util.clone(o)
CloneCall ==
    /\ pc = "idle"
    /\ \E o \in CloneArgs :
          /\ grammars' = clone(grammars, NoneVisited(grammars), o).heap
          /\ ret' = clone(grammars, NoneVisited(grammars), o).val
          /\ input' = [NoCall EXCEPT !.call = "clone", !.heap = grammars, !.o = o]
    /\ pc' = "ret"
    /\ ev' = Idle("CloneCall")
    /\ UNCHANGED <<stack, results, hooks, hl, log>>

\* Prism.languages.extend(id, redef)
ExtendCall ==
    /\ pc = "idle"
    /\ \E id \in {"plaintext", "markup", "other"} :
          /\ grammars' = extend(grammars, id, Redef).heap
          /\ ret' = extend(grammars, id, Redef).val
          /\ input' = [NoCall EXCEPT !.call = "extend", !.heap = grammars, !.id = id]
    /\ pc' = "ret"
    /\ ev' = Idle("ExtendCall")
    /\ UNCHANGED <<stack, results, hooks, hl, log>>

\* the keys before which rules are inserted: those of the grammars and one
\* that no grammar has
BeforeKeys == {"comment", "tag", "entity", "string", "punctuation", "attr-name", "none"}

\* Prism.languages.insertBefore(inside, before, insert, root), root being
\* Prism.languages or a rule object with an `inside` grammar
InsertBeforeCall ==
    /\ pc = "idle"
    /\ \E root \in {Languages, 5, 6}, inside \in {"markup", "other", "inside"},
          before \in BeforeKeys :
          /\ Get(grammars[root], inside).ref # 0
          /\ before = "none" \/ HasOwn(grammars[Get(grammars[root], inside).ref], before)
          /\ grammars' = insertBefore(grammars, inside, before, Redef, root).heap
          /\ ret' = insertBefore(grammars, inside, before, Redef, root).val
          /\ input' = [NoCall EXCEPT !.call = "insertBefore", !.heap = grammars,
                                     !.id = inside, !.before = before, !.root = root]
    /\ pc' = "ret"
    /\ ev' = Idle("InsertBeforeCall")
    /\ UNCHANGED <<stack, results, hooks, hl, log>>

\* the objects the properties of object n refer to
Refs(heap, n) == {heap[n].vals[i].ref : i \in 1..Len(heap[n].vals)} \ {0}

\* the objects reached from the objects ns through properties
RECURSIVE Reach(_, _)
Reach(heap, ns) ==
    IF UNION {Refs(heap, n) : n \in ns} \subseteq ns THEN ns
    ELSE Reach(heap, ns \cup UNION {Refs(heap, n) : n \in ns})

\* the objects reached through a value
ReachFrom(heap, v) == IF v.ref = 0 THEN {} ELSE Reach(heap, {v.ref})

\* Prism.languages.jsx.tag.pattern = ..., ...inside.comment = ...: after
\* clone or extend returned, a property of an object reached through the
\* result is assigned
AssignProperty ==
    /\ pc = "ret"
    /\ input.call \in {"clone", "extend"}
    /\ \E n \in ReachFrom(grammars, ret) :
          \E key \in {grammars[n].keys[i] : i \in 1..Len(grammars[n].keys)} \cup {"added"} :
             grammars' = SetProp(grammars, n, key, Prim("/changed/"))
    /\ pc' = "done"
    /\ ev' = Idle("AssignProperty")
    /\ UNCHANGED <<input, stack, ret, results, hooks, hl, log>>

NextLang ==
    \/ CloneCall
    \/ ExtendCall
    \/ InsertBeforeCall
    \/ AssignProperty

SpecLang == InitLang /\ [][NextLang]_vars

\* ------------------------------------------------------------------------
\* walkTokens of the jsx and tsx languages: plain text inside tags
\*
\* The state of one walkTokens call is w = [tokens, i, openedTags]: the
\* array as it is now, the loop index (0-based) and the stack of opened
\* tags, the last element being the top.
\* ------------------------------------------------------------------------

\* x.type === type
TypeIs(x, type) == x.kind = "tok" /\ x.type = type

\* x.content === s for a string s
ContentIs(x, s) == x.kind = "tok" /\ ~x.nested /\ x.str = s

\* token.content.length
ContentLength(token) == IF token.nested THEN Len(token.stream) ELSE Len(token.str)

\* token.content[k]: an element of the nested stream or a character of the
\* string, undefined beyond the end
At(token, k) ==
    IF token.kind # "tok" \/ k < 0 \/ k >= ContentLength(token) THEN NullValue
    ELSE IF token.nested THEN token.stream[k + 1]
    ELSE Str(<<token.str[k + 1]>>)

\* stringifyToken(token)
RECURSIVE stringifyToken(_)
RECURSIVE StringifyAll(_)
stringifyToken(token) ==
    IF token.kind = "null" THEN <<>>
    ELSE IF token.kind = "str" THEN token.str
    ELSE IF ~token.nested THEN token.str
    ELSE StringifyAll(token.stream)

\* (token.content as Token[]).map(stringifyToken).join('')
StringifyAll(stream) ==
    IF stream = <<>> THEN <<>>
    ELSE stringifyToken(stream[1]) \o StringifyAll(Tail(stream))

\* token.type === 'tag' && token.content[0] && token.content[0].type === 'tag'
IsTag(token) == TypeIs(token, "tag") /\ TypeIs(At(token, 0), "tag")

\* token.content[0].content[0].content === '</'
IsClosing(token) == ContentIs(At(At(token, 0), 0), <<"<", "/">>)

\* a test that finds no tag autoclosed
NeverAutoclosed(token) == FALSE

\* token.content[token.content.length - 1].content === '/>'
IsAutoclosed(token) == ContentIs(At(token, ContentLength(token) - 1), <<"/", ">">>)

\* stringifyToken(token.content[0].content[1])
TagName(token) == stringifyToken(At(At(token, 0), 1))

\* openedTags[openedTags.length - 1]
Top(openedTags) == openedTags[Len(openedTags)]

\* openedTags.length > 0 && token.type === 'punctuation' && token.content === '{'
IsOpenBrace(token, openedTags) ==
    /\ Len(openedTags) > 0
    /\ TypeIs(token, "punctuation")
    /\ ContentIs(token, <<"{">>)

\* a test that takes a closing brace at any depth
AnyCloseBrace(token, openedTags) ==
    /\ Len(openedTags) > 0
    /\ TypeIs(token, "punctuation")
    /\ ContentIs(token, <<"}">>)

\* openedTags.length > 0 && top.openedBraces > 0
\* && token.type === 'punctuation' && token.content === '}'
IsCloseBrace(token, openedTags) ==
    /\ Len(openedTags) > 0
    /\ Top(openedTags).openedBraces > 0
    /\ TypeIs(token, "punctuation")
    /\ ContentIs(token, <<"}">>)

\* a walker whose closing tags pop whatever the name on top
PopUnmatched(token, openedTags) ==
    IF IsClosing(token)
    THEN SubSeq(openedTags, 1, Len(openedTags) - 1)
    ELSE IF IsAutoclosed(token) THEN openedTags
    ELSE Append(openedTags, [tagName |-> TagName(token), openedBraces |-> 0])

\* the tag found at lines 83-99: the stack after it
AfterTag(token, openedTags) ==
    IF IsClosing(token)
    THEN IF Len(openedTags) > 0 /\ Top(openedTags).tagName = TagName(token)
         THEN SubSeq(openedTags, 1, Len(openedTags) - 1)
         ELSE openedTags
    ELSE IF IsAutoclosed(token) THEN openedTags
    ELSE Append(openedTags, [tagName |-> TagName(token), openedBraces |-> 0])

\* lines 79-113: the stack after the element
Opened(token, openedTags) ==
    IF token.kind = "str" THEN openedTags
    ELSE IF IsTag(token) THEN AfterTag(token, openedTags)
    ELSE IF IsOpenBrace(token, openedTags)
    THEN [openedTags EXCEPT ![Len(openedTags)].openedBraces = @ + 1]
    ELSE IF IsCloseBrace(token, openedTags)
    THEN [openedTags EXCEPT ![Len(openedTags)].openedBraces = @ - 1]
    ELSE openedTags

\* notTagNorBrace || typeof token === 'string'
NotTagNorBrace(token, openedTags) ==
    \/ token.kind = "str"
    \/ ~IsTag(token) /\ ~IsOpenBrace(token, openedTags) /\ ~IsCloseBrace(token, openedTags)

\* lines 114-115: the element is plain text inside a tag
IsPlainText(token, openedTags) ==
    /\ NotTagNorBrace(token, openedTags)
    /\ Len(openedTags) > 0
    /\ Top(openedTags).openedBraces = 0

\* typeof x === 'string' || x.type === 'plain-text'
IsText(x) == x.kind = "str" \/ TypeIs(x, "plain-text")

\* tokens.splice(k, 1), k 0-based
SpliceOut(tokens, k) == SubSeq(tokens, 1, k) \o SubSeq(tokens, k + 2, Len(tokens))

\* a walker that does not merge with the element before
KeepPrevious(r) == [tokens |-> r.tokens, i |-> r.i, plainText |-> r.plainText]

\* lines 125-129: merge with the element before
MergePrevious(r) ==
    IF r.i > 0 /\ IsText(r.tokens[r.i])
    THEN [tokens |-> SpliceOut(r.tokens, r.i - 1), i |-> r.i - 1,
          plainText |-> stringifyToken(r.tokens[r.i]) \o r.plainText]
    ELSE r

\* lines 118-124: plainText, merged with the element after
MergeNext(tokens, i) ==
    IF i < Len(tokens) - 1 /\ IsText(tokens[i + 2])
    THEN [tokens |-> SpliceOut(tokens, i + 1), i |-> i,
          plainText |-> stringifyToken(tokens[i + 1]) \o stringifyToken(tokens[i + 2])]
    ELSE [tokens |-> tokens, i |-> i, plainText |-> stringifyToken(tokens[i + 1])]

\* a plain-text token made without matchedStr
BarePlainToken(r) ==
    [tokens |-> [r.tokens EXCEPT ![r.i + 1] = Token("plain-text", r.plainText, <<>>, <<>>)],
     i |-> r.i]

\* tokens[i] = new Prism.Token('plain-text', plainText, undefined, plainText)
PlainToken(r) ==
    [tokens |-> [r.tokens EXCEPT ![r.i + 1] = Token("plain-text", r.plainText, <<>>, r.plainText)],
     i |-> r.i]

\* the activation of a walkTokens call: kept tells whether the token whose
\* content it walks is still an element of the caller's array
WalkFrame(tokens, kept) ==
    [tokens |-> tokens, i |-> 0, openedTags |-> <<>>, kept |-> kept]

\* the activation with the array and the index of r
InFrame(w, r) == [w EXCEPT !.tokens = r.tokens, !.i = r.i]

\* lines 75-133 for the element at w.i: the array, the index and the stack
\* of opened tags they leave
WalkElement(w) ==
    IF IsPlainText(w.tokens[w.i + 1], w.openedTags)
    THEN InFrame(w, PlainToken(MergePrevious(MergeNext(w.tokens, w.i))))
    ELSE [w EXCEPT !.openedTags = Opened(w.tokens[w.i + 1], w.openedTags)]

\* token.content && typeof token.content !== 'string'
HasTokens(token) == token.kind = "tok" /\ token.nested /\ token.stream # <<>>

\* ++i
NextElement(w) == [w EXCEPT !.i = w.i + 1]

\* ------------------------------------------------------------------------
\* The after-tokenize hooks of jsx and tsx as a state machine
\* ------------------------------------------------------------------------

\* longest enumerated token stream
MaxStream == 4

Punctuation(s) == Token("punctuation", s, <<>>, s)

\* the token of <name>, </name>, <name/>; the empty name is a fragment
TagToken(open, name, close) ==
    TokenOfStream("tag",
        <<TokenOfStream("tag",
              <<Punctuation(open)>> \o (IF name = <<>> THEN <<>> ELSE <<Str(name)>>),
              <<>>, open \o name)>>
        \o (IF close = <<">">> THEN <<>> ELSE <<Str(<<" ">>)>>)
        \o <<Punctuation(close)>>,
        <<>>, open \o name \o (IF close = <<">">> THEN <<>> ELSE <<" ">>) \o close)

OpenTag(name) == TagToken(<<"<">>, name, <<">">>)

CloseTag(name) == TagToken(<<"<", "/">>, name, <<">">>)

SelfTag(name) == TagToken(<<"<">>, name, <<"/", ">">>)

Keyword == Token("keyword", <<"k">>, <<>>, <<"k">>)

\* a token whose content holds a tag and its body
Interpolation ==
    TokenOfStream("interpolation",
                  <<OpenTag(<<"a">>), Str(<<"y">>), Keyword>>, <<>>,
                  <<"<", "a", ">", "y", "k">>)

\* the token a walk made before
OldPlainText == Token("plain-text", <<"p">>, <<>>, <<"p">>)

StreamElements ==
    {Str(<<"x">>), Keyword, Punctuation(<<"{">>), Punctuation(<<"}">>),
     OpenTag(<<"a">>), CloseTag(<<"a">>), CloseTag(<<"b">>), SelfTag(<<"b">>),
     OpenTag(<<>>), Interpolation, OldPlainText}

\* <a> x {k} x </a><b/> and <a><b/>x{{k}}k
LongStreams ==
    {<<OpenTag(<<"a">>), Str(<<"x">>), Punctuation(<<"{">>), Keyword,
       Punctuation(<<"}">>), Str(<<"x">>), CloseTag(<<"a">>), SelfTag(<<"b">>)>>,
     <<OpenTag(<<"a">>), SelfTag(<<"b">>), Str(<<"x">>), Punctuation(<<"{">>),
       Punctuation(<<"{">>), Keyword, Punctuation(<<"}">>), Punctuation(<<"}">>),
       Keyword>>}

Streams ==
    UNION {[1..n -> StreamElements] : n \in 0..MaxStream} \cup LongStreams

\* the languages of the two hooks, and the languages highlighted
WalkerLanguages == {"jsx", "tsx"}

InitWalk ==
    /\ \E tokens \in Streams, hook \in WalkerLanguages,
          language \in WalkerLanguages \cup {"css"} :
          input = [call |-> "walk", hook |-> hook, language |-> language,
                   tokens |-> tokens]
    /\ grammars = <<>>
    /\ stack = <<>>
    /\ pc = "idle"
    /\ ret = <<>>
    /\ results = <<>>
    /\ ev = Idle("Init")
    /\ hooks = NoHooks
    /\ hl = NoHighlight
    /\ log = <<>>

\* if (env.language !== 'jsx') return
HookSkip ==
    /\ pc = "idle"
    /\ input.call = "walk"
    /\ input.language # input.hook
    /\ ret' = input.tokens
    /\ pc' = "done"
    /\ ev' = Idle("HookSkip")
    /\ UNCHANGED <<grammars, input, stack, results, hooks, hl, log>>

\* walkTokens(env.tokens)
HookWalk ==
    /\ pc = "idle"
    /\ input.call = "walk"
    /\ input.language = input.hook
    /\ stack' = <<WalkFrame(input.tokens, TRUE)>>
    /\ pc' = "run"
    /\ ev' = Idle("HookWalk")
    /\ UNCHANGED <<grammars, input, ret, results, hooks, hl, log>>

\* one turn of the loop for an element that holds no tokens
WalkTurn ==
    /\ pc = "run"
    /\ input.call = "walk"
    /\ stack[Len(stack)].i < Len(stack[Len(stack)].tokens)
    /\ ~HasTokens(stack[Len(stack)].tokens[stack[Len(stack)].i + 1])
    /\ stack' = [stack EXCEPT ![Len(stack)] = NextElement(WalkElement(@))]
    /\ ev' = Idle("WalkTurn")
    /\ UNCHANGED <<grammars, input, pc, ret, results, hooks, hl, log>>

\* one turn of the loop up to the call walkTokens(token.content)
WalkEnter ==
    /\ pc = "run"
    /\ input.call = "walk"
    /\ stack[Len(stack)].i < Len(stack[Len(stack)].tokens)
    /\ HasTokens(stack[Len(stack)].tokens[stack[Len(stack)].i + 1])
    /\ stack' = [stack EXCEPT ![Len(stack)] = WalkElement(@)]
                \o <<WalkFrame(stack[Len(stack)].tokens[stack[Len(stack)].i + 1].stream,
                               ~IsPlainText(stack[Len(stack)].tokens[stack[Len(stack)].i + 1],
                                            stack[Len(stack)].openedTags))>>
    /\ ev' = Idle("WalkEnter")
    /\ UNCHANGED <<grammars, input, pc, ret, results, hooks, hl, log>>

\* the caller's activation once walkTokens(token.content) has returned: the
\* content is the array the call worked on, and the turn ends
AfterNested(caller, w) ==
    NextElement(IF w.kept THEN [caller EXCEPT !.tokens[caller.i + 1].stream = w.tokens]
                ELSE caller)

\* the loop of a nested call ends
WalkLeave ==
    /\ pc = "run"
    /\ input.call = "walk"
    /\ Len(stack) > 1
    /\ stack[Len(stack)].i >= Len(stack[Len(stack)].tokens)
    /\ stack' = [SubSeq(stack, 1, Len(stack) - 1)
                    EXCEPT ![Len(stack) - 1] = AfterNested(@, stack[Len(stack)])]
    /\ ev' = Idle("WalkLeave")
    /\ UNCHANGED <<grammars, input, pc, ret, results, hooks, hl, log>>

\* the loop of the hook's call ends: env.tokens is the array it worked on
HookReturn ==
    /\ pc = "run"
    /\ input.call = "walk"
    /\ Len(stack) = 1
    /\ stack[1].i >= Len(stack[1].tokens)
    /\ ret' = stack[1].tokens
    /\ stack' = <<>>
    /\ pc' = "done"
    /\ ev' = Idle("HookReturn")
    /\ UNCHANGED <<grammars, input, results, hooks, hl, log>>

NextWalk ==
    \/ HookSkip
    \/ HookWalk
    \/ WalkTurn
    \/ WalkEnter
    \/ WalkLeave
    \/ HookReturn

SpecWalk == InitWalk /\ [][NextWalk]_vars

\* ------------------------------------------------------------------------
\* Specification: highlightTextNode(text, lang), the ranges it registers
\*
\* The registered ranges are kept in `log` in the order of their
\* registration, each as [type, startOffset, endOffset].
\* ------------------------------------------------------------------------

\* new StaticRange({startOffset: index, endOffset: index + token.length})
\* added to the highlight of `type`
StaticRange(type, index, token) ==
    [type |-> type, startOffset |-> index, endOffset |-> index + token.length]

\* [].concat(token.content): the stream the content is, or the stream of
\* the one string it is
Concat(token) == IF token.nested THEN token.stream ELSE <<Str(token.str)>>

\* a walk that leaves the index where it is
SameIndex(index, token) == index

\* index += token.length
NextIndex(index, token) == index + token.length

\* _highlightTextNode(node, tokens, type, index, highlights): the ranges
\* registered so far followed by those the call registers
RECURSIVE highlightRanges(_, _, _, _)
highlightRanges(tokens, type, index, ranges) ==
    IF tokens = <<>> THEN ranges
    ELSE highlightRanges(
            Tail(tokens), type, NextIndex(index, Head(tokens)),
            IF Head(tokens).kind = "str"
            THEN Append(ranges, StaticRange(type, index, Head(tokens)))
            ELSE highlightRanges(Concat(Head(tokens)), Head(tokens).type, index, ranges))

\* the grammars of Prism.languages[lang] and the texts of the node, a
\* language without a grammar among them
TextNodeConfigs == Configs \cup {Config(<<>>, 0, t) : t \in TextsOfLen(1)}

InitText ==
    /\ \E c \in TextNodeConfigs :
          /\ grammars = c.grammars
          /\ input = [call |-> "highlightTextNode", text |-> c.text, g |-> c.g,
                      language |-> "x"]
    /\ stack = <<>>
    /\ pc = "idle"
    /\ ret = <<>>
    /\ results = <<>>
    /\ ev = Idle("Init")
    /\ hooks = NoHooks
    /\ hl = NoHighlight
    /\ log = <<>>

\* if (grammar) is false: nothing is done
NoLanguage ==
    /\ pc = "idle"
    /\ input.call = "highlightTextNode"
    /\ input.g = 0
    /\ pc' = "done"
    /\ ev' = Idle("NoLanguage")
    /\ UNCHANGED <<grammars, input, stack, ret, results, hooks, hl, log>>

\* _highlightTextNode(text, tokens, "source", 0, CSS.highlights)
HighlightTextNode ==
    /\ pc = "ret"
    /\ input.call = "highlightTextNode"
    /\ log' = highlightRanges(ret, "source", 0, <<>>)
    /\ pc' = "done"
    /\ ev' = Idle("HighlightTextNode")
    /\ UNCHANGED <<grammars, input, stack, ret, results, hooks, hl>>

NextText ==
    \/ NoLanguage
    \/ CallTokenize
    \/ GrammarDone
    \/ RuleSkip
    \/ CauseReturn
    \/ RuleStart
    \/ LoopExit
    \/ ReachBreak
    \/ Abort
    \/ SkipToken
    \/ MatchBreak
    \/ MatchContinue
    \/ Splice
    \/ SpliceInside
    \/ RematchReturn
    \/ InsideReturn
    \/ Finish
    \/ HighlightTextNode

SpecText == InitText /\ [][NextText]_vars

\* ------------------------------------------------------------------------
\* Specification: addAfter and removeRange calls on one LinkedList
\* ------------------------------------------------------------------------

\* the number of addAfter and removeRange calls made on the list
MaxCalls == 4

\* the largest count removeRange is called with
MaxCount == 3

\* the list the calls are made on
TheList == stack[1].list

RECURSIVE NodesFrom(_, _, _)
\* the nodes met by following `next` from a node, the node included, as
\* far as the tail, a null link or n steps
NodesFrom(nodes, node, n) ==
    IF node = 0 \/ n = 0 THEN <<>>
    ELSE IF node = TailNode THEN <<node>>
    ELSE <<node>> \o NodesFrom(nodes, nodes[node].next, n - 1)

\* the nodes of the list from head to tail
Chain(list) == NodesFrom(list.nodes, HeadNode, Len(list.nodes))

\* the nodes a caller can hold that addAfter and removeRange accept: the
\* nodes of the list other than the tail (addAfter "assumes that node !=
\* list.tail")
Anchors(list) == {Chain(list)[k] : k \in 1..Len(Chain(list))} \ {TailNode}

\* the values added: plain strings and a Token
ListValues ==
    {Str(<<"a">>), Str(<<"a", "b">>), Token("k1", <<"b">>, <<>>, <<"b">>)}

\* new LinkedList()
InitList ==
    /\ input = [call |-> "list"]
    /\ grammars = <<>>
    /\ stack = <<[list |-> NewList]>>
    /\ pc = "idle"
    /\ ret = 0
    /\ results = <<>>
    /\ ev = Idle("Init")
    /\ hooks = NoHooks
    /\ hl = NoHighlight
    /\ log = <<>>

\* addAfter(list, node, value), which returns the new node
AddAfterCall ==
    /\ Len(log) < MaxCalls
    /\ \E node \in Anchors(TheList), value \in ListValues :
          /\ stack' = <<[list |-> addAfter(TheList, node, value)]>>
          /\ ret' = LastNode(addAfter(TheList, node, value))
          /\ ev' = [Idle("addAfter") EXCEPT !.node = node]
    /\ log' = Append(log, "addAfter")
    /\ UNCHANGED <<grammars, input, pc, results, hooks, hl>>

\* removeRange(list, node, count)
RemoveRangeCall ==
    /\ Len(log) < MaxCalls
    /\ \E node \in Anchors(TheList), count \in 0..MaxCount :
          /\ stack' = <<[list |-> removeRange(TheList, node, count)]>>
          /\ ev' = [Idle("removeRange") EXCEPT !.node = node, !.removeCount = count]
    /\ ret' = 0
    /\ log' = Append(log, "removeRange")
    /\ UNCHANGED <<grammars, input, pc, results, hooks, hl>>

NextList == AddAfterCall \/ RemoveRangeCall

SpecList == InitList /\ [][NextList]_vars

\* ------------------------------------------------------------------------
\* Specification: one hooks.run(name, env) call whose callbacks call
\* hooks.add
\*
\* The log holds the calls of callbacks in order, each with its place in
\* the list of the hook.
\* ------------------------------------------------------------------------

\* most callbacks registered before the hooks.run call
MaxRegistered == 3

\* the hooks.add call a callback makes: addWrap calls hooks.add('wrap',
\* addClass), addBefore calls hooks.add('before-tokenize', recode),
\* addAdder calls hooks.add('before-tokenize', addBefore); the others make
\* none
AddedBy(cb) ==
    CASE cb = "addWrap" -> [name |-> "wrap", callback |-> "addClass"]
      [] cb = "addBefore" -> [name |-> "before-tokenize", callback |-> "recode"]
      [] cb = "addAdder" -> [name |-> "before-tokenize", callback |-> "addBefore"]
      [] OTHER -> [name |-> "", callback |-> ""]

\* hooks.all after the callback has run
AfterCallback(all, cb) ==
    IF AddedBy(cb).name = "" THEN all
    ELSE [all EXCEPT ![AddedBy(cb).name] = Pushed(all[AddedBy(cb).name], AddedBy(cb).callback)]

\* a loop over the callbacks the list held when the call started
SnapshotLength(before, now) == Len(before)

\* for (const callback of callbacks): the array iterator reads the length of
\* the array at every step
RunLength(before, now) == Len(now)

RECURSIVE CallbackSeqs(_)
CallbackSeqs(n) ==
    IF n = 0 THEN {<<>>}
    ELSE {Append(cs, c) : cs \in CallbackSeqs(n - 1),
                          c \in {"recode", "addWrap", "addBefore", "addAdder"}}

InitRun ==
    /\ \E name \in {"before-tokenize", "wrap"},
          cs \in UNION {CallbackSeqs(n) : n \in 0..MaxRegistered} :
          /\ hooks = [NoHooks EXCEPT ![name] = cs]
          /\ input = [call |-> "runLive", name |-> name, all |-> [NoHooks EXCEPT ![name] = cs]]
    /\ grammars = <<>>
    /\ stack = <<>>
    /\ pc = "idle"
    /\ ret = <<>>
    /\ results = <<>>
    /\ ev = Idle("Init")
    /\ hl = NoHighlight
    /\ log = <<>>

\* if (!callbacks || !callbacks.length) return
RunNothing ==
    /\ pc = "idle"
    /\ input.call = "runLive"
    /\ Len(hooks[input.name]) = 0
    /\ pc' = "done"
    /\ ev' = Idle("RunNothing")
    /\ UNCHANGED <<grammars, input, stack, ret, results, hooks, hl, log>>

\* the loop over the callbacks starts
RunEnter ==
    /\ pc = "idle"
    /\ input.call = "runLive"
    /\ Len(hooks[input.name]) > 0
    /\ pc' = "hook"
    /\ hl' = [hl EXCEPT !.i = 1]
    /\ ev' = Idle("RunEnter")
    /\ UNCHANGED <<grammars, input, stack, ret, results, hooks, log>>

\* callback(env) for the next callback of the list
RunNext ==
    /\ pc = "hook"
    /\ input.call = "runLive"
    /\ hl.i <= RunLength(input.all[input.name], hooks[input.name])
    /\ hooks' = AfterCallback(hooks, hooks[input.name][hl.i])
    /\ hl' = [hl EXCEPT !.env = Effect(hooks[input.name][hl.i], hl.env), !.i = hl.i + 1]
    /\ log' = Append(log, [hook |-> input.name, cb |-> hooks[input.name][hl.i],
                           on |-> "run", at |-> hl.i])
    /\ ev' = Idle("RunNext")
    /\ UNCHANGED <<grammars, input, stack, pc, ret, results>>

\* the loop ends and hooks.run returns
RunDone ==
    /\ pc = "hook"
    /\ input.call = "runLive"
    /\ hl.i > RunLength(input.all[input.name], hooks[input.name])
    /\ pc' = "done"
    /\ ev' = Idle("RunDone")
    /\ UNCHANGED <<grammars, input, stack, ret, results, hooks, hl, log>>

NextRun == RunNothing \/ RunEnter \/ RunNext \/ RunDone

SpecRun == InitRun /\ [][NextRun]_vars

\* ------------------------------------------------------------------------
\* Specification: the traversal DFS(Prism.languages, callback) of an
\* insertBefore call, one loop iteration at a time
\*
\* stack holds one frame [o, keys, i] for each running DFS call, the last
\* being the innermost: the object, Object.keys(o) as taken when the call
\* began and the place of the loop in them.  results is the map `visited`,
\* log the callback calls and the DFS calls in the order they were made.
\* ------------------------------------------------------------------------

\* the callback's old, inside and ret of the insertBefore call running
CallbackEnv ==
    [old |-> Get(input.heap[input.root], input.id).ref, inside |-> input.id,
     ret |-> Len(input.heap) + 1]

DFSFrame(o, keys, i) == [o |-> o, keys |-> keys, i |-> i]

CallbackCalled(o, key) == [op |-> "callback", o |-> o, key |-> key]

DFSCalled(o) == [op |-> "DFS", o |-> o, key |-> ""]

\* the registries of RegistryHeaps with few rules passed, and those where
\* the rule of markup's tag refers to the object Prism.languages itself
DFSHeaps ==
    {RegistryHeap(x, y, z, w, rk, Prim("/r1/"), 8) :
        x \in {3, 4}, y \in {Languages, 3, 4, 8}, z \in {3, 8}, w \in {5, 9},
        rk \in {<<>>, <<"tag", "color">>}}

InitDFS ==
    /\ grammars \in DFSHeaps
    /\ input = NoCall
    /\ stack = <<>>
    /\ pc = "idle"
    /\ ret = Undefined
    /\ results = <<>>
    /\ ev = Idle("Init")
    /\ hooks = NoHooks
    /\ hl = NoHighlight
    /\ log = <<>>

\* insertBefore(inside, before, insert, root) up to root[inside] = ret, and
\* the call this.DFS(Prism.languages, callback) with a new Map
InsertBeforeEnter ==
    /\ pc = "idle"
    /\ \E root \in {Languages, 5}, inside \in {"markup", "other", "inside"},
          before \in {"tag", "none"} :
          /\ Get(grammars[root], inside).ref \notin {0, Languages}
          /\ grammars' = SetProp(BuildRet(Alloc(grammars, "Object"), Len(grammars) + 1,
                                          Get(grammars[root], inside).ref, before, Redef, 1),
                                 root, inside, Ref(Len(grammars) + 1))
          /\ input' = [NoCall EXCEPT !.call = "DFS", !.heap = grammars,
                                     !.id = inside, !.before = before, !.root = root]
    /\ stack' = <<DFSFrame(Languages, grammars'[Languages].keys, 1)>>
    /\ results' = NoneVisited(grammars')
    /\ log' = <<DFSCalled(Languages)>>
    /\ pc' = "dfs"
    /\ ev' = Idle("InsertBeforeEnter")
    /\ UNCHANGED <<ret, hooks, hl>>

\* a test that finds no object in visited
NeverVisited(visited, property) == TRUE

\* !visited.has(property)
NotVisited(visited, property) == visited[property.ref] = 0

\* one iteration of for (const i of Object.keys(o)) over the heap the
\* callback left: the next key, or the DFS call on an object or array that
\* visited has not
DFSDescend(heap, f) ==
    /\ grammars' = heap
    /\ IF Get(heap[f.o], f.keys[f.i]).ref # 0
          /\ NotVisited(results, Get(heap[f.o], f.keys[f.i]))
       THEN /\ results' = [results EXCEPT ![Get(heap[f.o], f.keys[f.i]).ref] = 1]
            /\ stack' = Append([stack EXCEPT ![Len(stack)].i = f.i + 1],
                               DFSFrame(Get(heap[f.o], f.keys[f.i]).ref,
                                        heap[Get(heap[f.o], f.keys[f.i]).ref].keys, 1))
            /\ log' = log \o <<CallbackCalled(f.o, f.keys[f.i]),
                               DFSCalled(Get(heap[f.o], f.keys[f.i]).ref)>>
       ELSE /\ results' = results
            /\ stack' = [stack EXCEPT ![Len(stack)].i = f.i + 1]
            /\ log' = Append(log, CallbackCalled(f.o, f.keys[f.i]))

\* callback.call(o, i, o[i], type || i), then const property = o[i] and
\* the rest of the iteration
DFSIteration ==
    /\ pc = "dfs"
    /\ stack[Len(stack)].i <= Len(stack[Len(stack)].keys)
    /\ DFSDescend(Rewrite(grammars, stack[Len(stack)].keys[stack[Len(stack)].i],
                          Get(grammars[stack[Len(stack)].o],
                              stack[Len(stack)].keys[stack[Len(stack)].i]),
                          CallbackEnv),
                  stack[Len(stack)])
    /\ ev' = Idle("DFSIteration")
    /\ UNCHANGED <<input, pc, ret, hooks, hl>>

\* the loop of a DFS call other than the first is over
DFSReturn ==
    /\ pc = "dfs"
    /\ Len(stack) > 1
    /\ stack[Len(stack)].i > Len(stack[Len(stack)].keys)
    /\ stack' = SubSeq(stack, 1, Len(stack) - 1)
    /\ ev' = Idle("DFSReturn")
    /\ UNCHANGED <<grammars, input, pc, ret, results, hooks, hl, log>>

\* the loop of the first DFS call is over: return ret
InsertBeforeReturn ==
    /\ pc = "dfs"
    /\ Len(stack) = 1
    /\ stack[1].i > Len(stack[1].keys)
    /\ stack' = <<>>
    /\ ret' = Ref(CallbackEnv.ret)
    /\ pc' = "ret"
    /\ ev' = Idle("InsertBeforeReturn")
    /\ UNCHANGED <<grammars, input, results, hooks, hl, log>>

NextDFS == InsertBeforeEnter \/ DFSIteration \/ DFSReturn \/ InsertBeforeReturn

\* the interpreter runs the call on until it returns
FairnessDFS == []<>(pc = "ret") \/ []<><<NextDFS>>_vars

SpecDFS == InitDFS /\ [][NextDFS]_vars /\ FairnessDFS

\* ------------------------------------------------------------------------
\* Properties
\* ------------------------------------------------------------------------

\* the sum of the `length` fields of the elements of a stream
RECURSIVE SumLengths(_)
SumLengths(stream) ==
    IF stream = <<>> THEN 0
    ELSE stream[1].length + SumLengths(Tail(stream))

\* the activations whose working list is not in the middle of a splice
Settled(i) == stack[i].frames[Len(stack[i].frames)].phase # "inside"

HasToken(stream) == \E k \in 1..Len(stream) : stream[k].kind = "tok"

\* C1: the lengths of the top-level elements of every stream tokenize
\* returns sum to the length of its text, and so do the lengths of the
\* nodes of every working list between two splices, a list the pass left
\* through the length test included.
C1_LengthSum ==
    /\ \A i \in 1..Len(stack) :
          Settled(i) => SumLengths(toArray(stack[i].list)) = Len(stack[i].text)
    /\ pc = "ret" => SumLengths(ret) = Len(input.text)
    /\ \A k \in 1..Len(results) : SumLengths(results[k]) = Len(input.text)

\* a call has returned a stream with tokens that was cut short by the
\* length test
C1_Witness ==
    /\ pc = "ret"
    /\ HasToken(ret)
    /\ Len(ret) > Len(input.text)
    /\ SumLengths(ret) = Len(input.text)

NoAdjacentStrings(stream) ==
    \A k \in 1..(Len(stream) - 1) :
        ~(stream[k].kind = "str" /\ stream[k + 1].kind = "str")

NoEmptyString(stream) ==
    \A k \in 1..Len(stream) : ~(stream[k].kind = "str" /\ stream[k].str = <<>>)

\* a tokenize call, nested or not, has just returned `ret`
Returned == ev.kind \in {"Finish", "InsideReturn"}

\* the length of the text of the call that has just returned
ReturnedTextLen == IF ev.kind = "Finish" THEN Len(input.text) ELSE ev.len

\* C2: a stream tokenize returns has no two plain strings in a row and no
\* empty string, unless it is [""] returned for the empty text.
C2_StreamShape ==
    Returned =>
        \/ NoAdjacentStrings(ret) /\ NoEmptyString(ret)
        \/ ret = <<Str(<<>>)>> /\ ReturnedTextLen = 0

\* a stream of several elements, a plain string among them, returned after
\* the length test stopped the pass
C2_Witness ==
    /\ ev.kind = "Finish"
    /\ Len(ret) > Len(input.text)
    /\ \E k \in 1..Len(ret) : ret[k].kind = "str"
    /\ Len(ret) > 1

\* the rules of a grammar that come before rule j of key ki, as <<key, rule>>
EarlierRules(keys, ki, j) ==
    UNION {{<<k, n>> : n \in {r \in 1..Len(keys[k].rules) : k < ki \/ r < j}} :
              k \in {i \in 1..ki : i <= Len(keys) /\ ~keys[i].falsy}}

\* the key index of the rule of a splice event
EventKey(keys) == KeyIndex(keys, ev.token)

\* a splice has just replaced one plain-text node by a token
OneNodeSplice == ev.kind \in {"Splice", "SpliceInside"} /\ ev.removeCount = 1

\* the string of the node the splice replaced
SplicedText == Slice(stack[ev.depth].text, ev.start, ev.end)

\* rule r matches string s at the span index..index+len
MatchesSpan(r, s, index, len) ==
    LET m == matchPattern(r.pattern, 0, s, r.lookbehind)
    IN  m.ok /\ m.index = index /\ m.len = len

\* the rule of the last splice and the grammar it belongs to
SpliceKeys == grammars[stack[ev.depth].g].keys

WordPhraseCall ==
    /\ input.text = TextAbCd
    /\ Len(grammars[1].keys) = 2
    /\ grammars[1].keys[1].name = "word"

WordToken(s) == Token("word", s, <<>>, s)

\* [word "ab", " ", word "cd"]
TwoWords == <<WordToken(<<"a", "b">>), Str(<<" ">>), WordToken(<<"c", "d">>)>>

\* C4 as stated: the stream returned for "ab cd" is one `phrase` token
\* covering the whole text.
C4_OnePhrase ==
    (WordPhraseCall /\ pc = "done") =>
        /\ Len(results[1]) = 1
        /\ results[1][1].kind = "tok"
        /\ results[1][1].type = "phrase"
        /\ results[1][1].length = Len(TextAbCd)

\* C4: tokenizing "ab cd" with {word: /\w+/, phrase: greedy /\w+\s\w+/}
\* first yields two `word` tokens with a plain space between them; the
\* greedy `phrase` rule skips the first token, searches from the space on
\* and finds no match, so the stream returned is [word "ab", " ", word
\* "cd"].  With the keys in the other order it is one `phrase` token.
C4_TwoWords ==
    /\ (WordPhraseCall /\ Running /\ Len(stack) = 1 /\ F.token = "phrase") =>
          toArray(A.list) = TwoWords
    /\ (WordPhraseCall /\ pc = "done") =>
          /\ results[1] = TwoWords
          /\ results[2] = TwoWords
    /\ (input.text = TextAbCd /\ grammars[1].keys[1].name = "phrase" /\ pc = "done") =>
          results[1] = <<Token("phrase", TextAbCd, <<>>, TextAbCd)>>

\* the `phrase` rule has looked for a match from the space on and found none
C4_Witness ==
    /\ WordPhraseCall
    /\ ev.kind = "MatchBreak"
    /\ ev.token = "phrase"
    /\ toArray(A.list) = TwoWords

\* the offset in the text at which node n of a list starts
RECURSIVE OffsetOf(_, _, _)
OffsetOf(nodes, node, n) ==
    IF node = n \/ node = TailNode THEN 0
    ELSE nodes[node].value.length + OffsetOf(nodes, nodes[node].next, n)

\* a rule with lookbehind has just put its token in the list
LookbehindSplice == ev.kind \in {"Splice", "InsideReturn"} /\ ev.rule.lookbehind

\* the list the token of the last splice is in, and the token
SplicedList == stack[ev.depth].list

SplicedToken == SplicedList.nodes[ev.node].value

\* the string the rule of the last splice was matched on, and the offset
\* of that string in the text: the whole text for a greedy rule, the node's
\* string for any other
MatchedOn == IF ev.rule.greedy THEN stack[ev.depth].text ELSE SplicedText

MatchedAt == IF ev.rule.greedy THEN 0 ELSE ev.start

\* the token of the last splice is the part after group 1 of a match of
\* its rule: the match starts ev.g1 characters before the token, its group
\* ends where the token starts and the match ends where the token ends
TokenAfterGroup ==
    /\ ev.g1 <= ev.from - MatchedAt
    /\ MatchFrom(ev.rule.pattern, 1, MatchedOn, ev.from - MatchedAt - ev.g1)
          = [end |-> ev.from - MatchedAt + ev.len,
             gend |-> IF ev.g1 > 0 THEN ev.from - MatchedAt
                      ELSE ev.from - MatchedAt + ev.len]
    /\ SplicedToken.kind = "tok"
    /\ SplicedToken.length = ev.len
    /\ ~SplicedToken.nested =>
          SplicedToken.str = Slice(stack[ev.depth].text, ev.from, ev.from + ev.len)
    /\ OffsetOf(SplicedList.nodes, SplicedList.nodes[HeadNode].next, ev.node) = ev.from

\* the node before the token of the last splice is a plain string that
\* ends with the ev.g1 characters before the token
GroupInStringBefore ==
    LET prev == SplicedList.nodes[SplicedList.nodes[ev.node].prev].value
    IN  /\ prev.kind = "str"
        /\ prev.length >= ev.g1
        /\ SliceFrom(prev.str, prev.length - ev.g1)
              = Slice(stack[ev.depth].text, ev.from - ev.g1, ev.from)

StartXCall ==
    /\ input.text = <<"x">>
    /\ Len(grammars[1].keys) = 1
    /\ grammars[1].keys[1].name = "look"

\* C5 as stated: the token of a lookbehind rule covers the part of the
\* match after group 1, and a non-empty group 1 stays in the plain-text
\* element immediately before the token.
C5_GroupStaysPlain ==
    LookbehindSplice =>
        /\ TokenAfterGroup
        /\ ev.g1 > 0 => GroupInStringBefore

\* C5: the token of a lookbehind rule covers only the part of the match
\* after group 1, which is the text immediately before the token; for a
\* rule that is not greedy a non-empty group 1 is the end of the plain-text
\* element immediately before the token (for a greedy rule it may lie in
\* elements that are Tokens already); /(^)x/ on "x" gives a token of
\* length 1 covering the whole match.
C5_TokenAfterGroup ==
    /\ LookbehindSplice =>
          /\ TokenAfterGroup
          /\ (ev.g1 > 0 /\ ~ev.rule.greedy) => GroupInStringBefore
    /\ (StartXCall /\ pc = "done") =>
          results[1] = <<Token("look", <<"x">>, <<>>, <<"x">>)>>

\* a lookbehind rule that is not greedy has made a token after a non-empty
\* group 1
C5_Witness ==
    /\ LookbehindSplice
    /\ ev.g1 > 0
    /\ ~ev.rule.greedy
    /\ ev.len > 0

\* the frames that are applying a rule
Applying(f) == f.phase \in {"node", "inside", "rematch"}

\* no rematch pass is applying the rule that started it
NoSelfRematch ==
    \A i \in 1..Len(stack) :
        \A n \in 1..Len(stack[i].frames) :
            LET f == stack[i].frames[n]
            IN  (f.rematch /\ Applying(f)) =>
                    /\ f.cause # CauseOf(f.token, f.j)
                    /\ n > 1
                    /\ f.cause = CauseOf(stack[i].frames[n - 1].token,
                                         stack[i].frames[n - 1].j)

\* C6: every tokenize call returns, whatever mix of greedy and non-greedy
\* rules the grammar has and even when patterns match the empty string,
\* and a greedy rule is never applied in the rematch pass it started.
C6_Terminates == <>(pc = "done") /\ []NoSelfRematch

\* a rematch pass has arrived at the rule that started it and returned
C6_Witness ==
    /\ ev.kind = "CauseReturn"
    /\ ev.rematch
    /\ Len(A.frames) > 1
    /\ F.cause = CauseOf(A.frames[Len(A.frames) - 1].token,
                         A.frames[Len(A.frames) - 1].j)

\* the working list of an activation holds more nodes than its text has
\* characters
TooLong(act) == Len(toArray(act.list)) > Len(act.text)

\* C7: once a working list holds more nodes than its text has characters
\* when a node is about to be examined, no step changes that list again,
\* neither in the running pass nor in a pass it returns to, no step raises
\* an error, and the call returns the list as it stands.
C7_ValveStops ==
    [][\A i \in 1..Len(stack) :
          (TooLong(stack[i]) /\ Settled(i)) =>
              /\ pc' # "threw"
              /\ i <= Len(stack') => stack'[i].list = stack[i].list
              /\ i > Len(stack') => ret' = toArray(stack[i].list)]_vars

\* a rematch pass has stopped at the length test and returned to the pass
\* that called it
C7_Witness ==
    /\ ev.kind = "RematchReturn"
    /\ Running
    /\ TooLong(A)
    /\ HasToken(toArray(A.list))

\* C8: two calls of tokenize with the same text and the same grammar
\* object, one after the other, return equal streams, although the first
\* call may have merged `rest` into the grammar and rewritten its greedy
\* patterns.
C8_SameStream ==
    pc = "done" => /\ Len(results) = 2
                   /\ results[1] = results[2]

\* both calls have returned a stream with a token of a greedy rule whose
\* pattern the first call rewrote
C8_Witness ==
    /\ pc = "done"
    /\ \E k \in 1..Len(results[1]) :
          /\ results[1][k].kind = "tok"
          /\ \E r \in 1..Len(grammars[1].keys) :
                /\ grammars[1].keys[r].name = results[1][k].type
                /\ ~grammars[1].keys[r].falsy
                /\ \E n \in 1..Len(grammars[1].keys[r].rules) :
                      /\ grammars[1].keys[r].rules[n].greedy
                      /\ "g" \in grammars[1].keys[r].rules[n].pattern.flags

\* hooks.run(name, env) from its i-th callback on, for the callbacks of
\* Prism.highlight: the env they leave
RECURSIVE RunEffects(_, _, _)
RunEffects(callbacks, i, env) ==
    IF i > Len(callbacks) THEN env
    ELSE RunEffects(callbacks, i + 1, Effect(callbacks[i], env))

\* the env Prism.highlight builds from its arguments
ArgEnv ==
    [code |-> input.text, grammar |-> input.g, language |-> input.language,
     tokens |-> <<>>]

\* the env as the before-tokenize callbacks leave it
BeforeEnv == RunEffects(hooks["before-tokenize"], 1, ArgEnv)

\* the calls of the callbacks of a hook of Prism.highlight, in order
HookCalls(name) ==
    [i \in 1..Len(hooks[name]) |-> [hook |-> name, cb |-> hooks[name][i], on |-> ""]]

TokenizeCall == [hook |-> "tokenize", cb |-> "", on |-> ""]

\* the highlight call has ended, by returning or by raising the error
HighlightEnded == hl.phase \in {"returned", "threw"}

\* C9 as stated: a highlight call with grammar undefined raises the error
\* naming the language, and no hook callback and no tokenize is run in it.
C9_NoCallbackRuns ==
    (hl.active /\ input.g = 0) =>
        /\ log = <<>>
        /\ HighlightEnded => (hl.phase = "threw" /\ hl.error = input.language)

\* C9: a highlight call with grammar undefined first runs every
\* before-tokenize callback, in the order of registration; if env.grammar
\* is still undefined after them the call raises the error, naming
\* env.language as the callbacks left it, and neither tokenize nor any
\* after-tokenize or wrap callback is run; if a callback has set
\* env.grammar the call goes on to tokenize.
C9_ErrorAfterBefore ==
    (hl.active /\ input.g = 0 /\ HighlightEnded) =>
        /\ (hl.phase = "threw") = (BeforeEnv.grammar = 0)
        /\ hl.phase = "threw" =>
              /\ log = HookCalls("before-tokenize")
              /\ hl.error = BeforeEnv.language
              /\ stack = <<>>
              /\ hl.out = <<>>

\* the call has raised the error after a callback that renamed the language
C9_Witness ==
    /\ hl.active
    /\ input.g = 0
    /\ hl.phase = "threw"
    /\ log # <<>>
    /\ hl.error # input.language

\* the place of a log entry's phase in the order of the phases
PhaseRank(entry) ==
    CASE entry.hook = "before-tokenize" -> 1
      [] entry.hook = "tokenize" -> 2
      [] entry.hook = "after-tokenize" -> 3
      [] entry.hook = "wrap" -> 4

\* the tokens as the after-tokenize callbacks leave them
AfterEnv(tokens) ==
    RunEffects(hooks["after-tokenize"], 1, [BeforeEnv EXCEPT !.tokens = tokens])

\* C10: in a highlight call the phases come in the order before-tokenize,
\* tokenize, after-tokenize, stringify with its wrap callbacks; tokenize
\* runs on the text and grammar the before-tokenize callbacks left in env,
\* the after-tokenize callbacks get its result, and the string returned is
\* that of the tokens they left.
C10_PhaseOrder ==
    /\ \A k \in 1..(Len(log) - 1) : PhaseRank(log[k]) <= PhaseRank(log[k + 1])
    /\ (hl.active /\ hl.phase = "tokenize" /\ stack # <<>>) =>
          /\ stack[1].text = BeforeEnv.code
          /\ stack[1].g = BeforeEnv.grammar
          /\ log = Append(HookCalls("before-tokenize"), TokenizeCall)
    /\ (hl.active /\ hl.phase = "returned") =>
          /\ hl.env = AfterEnv(ret)
          /\ hl.out = StringifyStream(EncodeStream(hl.env.tokens), hl.env.language,
                                      hooks["wrap"]).s
          /\ log = Append(HookCalls("before-tokenize"), TokenizeCall)
                     \o HookCalls("after-tokenize")
                     \o StringifyStream(EncodeStream(hl.env.tokens), hl.env.language,
                                        hooks["wrap"]).calls

\* a call has returned after a before-tokenize callback, a tokenize call
\* that made a token and a wrap callback on that token
C10_Witness ==
    /\ hl.active
    /\ hl.phase = "returned"
    /\ hooks["before-tokenize"] # <<>>
    /\ hooks["wrap"] # <<>>
    /\ \E k \in 1..Len(log) : log[k].hook = "wrap"

\* the callbacks that the hooks.add calls of the log added under a name, in
\* the order of the calls
RECURSIVE AddedUnder(_, _)
AddedUnder(entries, name) ==
    IF entries = <<>> THEN <<>>
    ELSE (IF entries[1].on = "add" /\ entries[1].hook = name
          THEN <<entries[1].cb>> ELSE <<>>) \o AddedUnder(Tail(entries), name)

\* the calls of callbacks in the log, in order
RunCalls(entries) == SelectSeq(entries, LAMBDA e : e.on = "run")

\* the hooks.run call has returned
RunReturned == input.call = "run" /\ pc = "done"

\* C11: after any sequence of hooks.add calls, hooks.run(name, env) calls
\* exactly the callbacks added under name, once per add call, in the order
\* of the add calls, none added under another name, each with the one env
\* object (a callback finds env as the callbacks before it left it, the
\* caller as the last one left it); with nothing added under name it calls
\* nothing and leaves env alone.
C11_RunsAdded ==
    RunReturned =>
        /\ Len(RunCalls(log)) = Len(AddedUnder(log, input.name))
        /\ \A k \in 1..Len(RunCalls(log)) :
              /\ RunCalls(log)[k].hook = input.name
              /\ RunCalls(log)[k].cb = AddedUnder(log, input.name)[k]
              /\ RunCalls(log)[k].env =
                    RunEffects(SubSeq(AddedUnder(log, input.name), 1, k - 1), 1, input.env)
        /\ hl.env = RunEffects(AddedUnder(log, input.name), 1, input.env)
        /\ AddedUnder(log, input.name) = <<>> =>
              (RunCalls(log) = <<>> /\ hl.env = input.env)

\* the run has called one function twice, added twice under its name after
\* a callback added under another name, and the second call found the env
\* as the first left it
C11_Witness ==
    /\ RunReturned
    /\ Len(log) = 5
    /\ log[1].on = "add" /\ log[1].hook # input.name
    /\ log[4].cb = "recode" /\ log[5].cb = "recode"
    /\ log[4].env # log[5].env

\* extend has returned
ExtendReturned == input.call = "extend" /\ pc = "ret"

\* the grammar registered under the id of the extend call, before the call
BaseGrammar == input.heap[Get(input.heap[Languages], input.id).ref]

\* the rules passed to the call, before the call
PassedRules == input.heap[Redef]

\* the mapping the call returned
ReturnedMapping == grammars[ret.ref]

\* the keys of a mapping as a set
KeySet(o) == {o.keys[i] : i \in 1..Len(o.keys)}

\* C12: the mapping extend(id, R) returns has the keys of the base grammar
\* B in B's order, then the keys of R that B has not, in R's order; every
\* key of R, at B's place or at the end, carries R's value.
C12_ExtendOrder ==
    ExtendReturned =>
        /\ ret.ref > Len(input.heap)
        /\ ReturnedMapping.keys =
              BaseGrammar.keys \o SelectSeq(PassedRules.keys, LAMBDA k : ~HasOwn(BaseGrammar, k))
        /\ \A k \in KeySet(PassedRules) : Get(ReturnedMapping, k) = Get(PassedRules, k)

\* extend("markup", {color: ..., comment: /r2/}) has returned: comment is
\* first as in markup with the new value, color is appended
C12_Witness ==
    /\ ExtendReturned
    /\ input.id = "markup"
    /\ PassedRules.keys = <<"color", "comment">>
    /\ ReturnedMapping.keys = <<"comment", "tag", "entity", "color">>
    /\ Get(ReturnedMapping, "comment") = Prim("/r2/")
    /\ Get(BaseGrammar, "comment") = Prim("/c/")

\* extend has returned, and a property may have been assigned since
ExtendDone == input.call = "extend" /\ pc \in {"ret", "done"}

\* the objects that existed before the call
OldObjects == 1..Len(input.heap)

\* the objects reached through the base grammar before the call
BaseNodes == ReachFrom(input.heap, Get(input.heap[Languages], input.id))

\* the objects reached through the values of the rules passed
RuleNodes == UNION {ReachFrom(input.heap, PassedRules.vals[i]) : i \in 1..Len(PassedRules.vals)}

\* the objects are as they were before the call
Unchanged(ns) == \A n \in ns : grammars[n] = input.heap[n]

\* C13 as stated: extend leaves every object of the registry as it was, the
\* mapping returned shares no object with the base grammar, and an
\* assignment to a property of an object reached through the result leaves
\* what is reached through the base grammar as it was.
C13_SharesNothing ==
    ExtendDone =>
        /\ pc = "ret" => Unchanged(OldObjects)
        /\ pc = "ret" => ReachFrom(grammars, ret) \cap BaseNodes = {}
        /\ pc = "done" => Unchanged(BaseNodes)

\* C13: extend leaves every object of the registry as it was; of the
\* objects that existed before the call the mapping returned reaches only
\* those that the values of the rules passed reach, every other object of
\* its graph being new; so when no value of the rules passed reaches an
\* object of the base grammar, an assignment to a property reached through
\* the result leaves what is reached through the base grammar as it was.
C13_CloneIsFresh ==
    ExtendDone =>
        /\ pc = "ret" =>
              /\ Unchanged(OldObjects)
              /\ ret.ref \notin OldObjects
              /\ (ReachFrom(grammars, ret) \cap OldObjects) \subseteq RuleNodes
        /\ (pc = "done" /\ RuleNodes \cap BaseNodes = {}) => Unchanged(BaseNodes)

\* after extend("markup", rules) with a rule object of its own, the
\* pattern of the clone of markup's tag rule has been assigned and the
\* rule of markup has its pattern as before
C13_Witness ==
    /\ input.call = "extend" /\ pc = "done"
    /\ input.id = "markup"
    /\ RuleNodes # {} /\ RuleNodes \cap BaseNodes = {}
    /\ ~HasOwn(PassedRules, "tag")
    /\ Get(ReturnedMapping, "tag").ref # 0
    /\ Get(grammars[Get(ReturnedMapping, "tag").ref], "pattern") = Prim("/changed/")
    /\ Get(grammars[Get(BaseGrammar, "tag").ref], "pattern") = Prim("/t/")

\* insertBefore has returned
InsertReturned == input.call = "insertBefore" /\ pc = "ret"

\* the mapping root[inside] of the insertBefore call, before the call
OldMapping == Get(input.heap[input.root], input.id).ref

OldGrammar == input.heap[OldMapping]

\* the keys of the old grammar from the i-th to the j-th that the rules
\* passed do not have
KeptKeys(i, j) ==
    SelectSeq(SubSeq(OldGrammar.keys, i, j), LAMBDA k : ~HasOwn(PassedRules, k))

\* C14: for a grammar g = root[inside] that has the key `before`, the
\* mapping insertBefore builds has g's keys that precede `before`, then the
\* keys of the rules passed in their order, then `before` and g's remaining
\* keys; a key of g that the rules passed have too appears only among the
\* rules passed; the rules passed carry their values and the other keys
\* the values they have in g.
C14_InsertOrder ==
    (InsertReturned /\ HasOwn(OldGrammar, input.before)) =>
        /\ ReturnedMapping.keys =
              KeptKeys(1, IndexOf(OldGrammar, input.before) - 1)
                 \o PassedRules.keys
                 \o KeptKeys(IndexOf(OldGrammar, input.before), Len(OldGrammar.keys))
        /\ \A k \in KeySet(PassedRules) : Get(ReturnedMapping, k) = Get(PassedRules, k)
        /\ \A k \in KeySet(OldGrammar) \ KeySet(PassedRules) :
              Get(ReturnedMapping, k) = Get(OldGrammar, k)

\* insertBefore("markup", "tag", {color: ..., comment: /r2/}) has returned:
\* comment has left its place before tag and comes with the rules passed
C14_Witness ==
    /\ InsertReturned
    /\ input.root = Languages /\ input.id = "markup" /\ input.before = "tag"
    /\ PassedRules.keys = <<"color", "comment">>
    /\ ReturnedMapping.keys = <<"color", "comment", "tag", "entity">>
    /\ Get(ReturnedMapping, "comment") = Prim("/r2/")

\* C15 as stated: after insertBefore(inside, before, rules) on the registry
\* has returned, no property of an object reached from Prism.languages
\* refers to the old mapping, and every property that referred to it
\* refers to the mapping returned.
C15_NoOldReference ==
    (InsertReturned /\ input.root = Languages) =>
        /\ \A n \in Reach(grammars, {Languages}) : OldMapping \notin Refs(grammars, n)
        /\ \A n \in Reach(input.heap, {Languages}) :
              \A i \in 1..Len(input.heap[n].vals) :
                 input.heap[n].vals[i].ref = OldMapping
                    => Get(grammars[n], input.heap[n].keys[i]) = ret

\* C16: insertBefore does not modify the old mapping: after the call
\* root[inside] is the mapping returned, an object that did not exist
\* before, and the old mapping has its keys, their order and their values
\* as before the call.
C16_OldMappingKept ==
    InsertReturned =>
        /\ Get(grammars[input.root], input.id) = ret
        /\ ret.ref # OldMapping
        /\ ret.ref \notin OldObjects
        /\ grammars[OldMapping] = input.heap[OldMapping]

\* insertBefore has returned a mapping with other keys than the old one,
\* and a rule object still holds the old mapping as its `inside`
C16_Witness ==
    /\ InsertReturned
    /\ input.root = Languages
    /\ ReturnedMapping.keys # OldGrammar.keys
    /\ \E n \in Reach(grammars, {Languages}) :
          /\ n # Languages
          /\ Get(grammars[n], "inside") = Ref(OldMapping)
    /\ grammars[OldMapping].keys = OldGrammar.keys

\* clone has returned
CloneReturned == input.call = "clone" /\ pc = "ret"

\* the objects reached from object n in the order a depth-first walk
\* through the properties, in key order, first meets them; order holds
\* those met so far
RECURSIVE Visit(_, _, _)
RECURSIVE VisitProps(_, _, _, _)
Visit(heap, order, n) ==
    IF \E i \in 1..Len(order) : order[i] = n THEN order
    ELSE VisitProps(heap, Append(order, n), n, 1)

VisitProps(heap, order, n, i) ==
    IF i > Len(heap[n].vals) THEN order
    ELSE VisitProps(heap,
                    IF heap[n].vals[i].ref = 0 THEN order
                    ELSE Visit(heap, order, heap[n].vals[i].ref),
                    n, i + 1)

\* the place of an object in an order
Position(order, n) == CHOOSE i \in 1..Len(order) : order[i] = n

\* the objects of an order with every reference replaced by the place of
\* the object it refers to
Renumbered(heap, order) ==
    [i \in 1..Len(order) |->
        [kind |-> heap[order[i]].kind,
         keys |-> heap[order[i]].keys,
         vals |-> [j \in 1..Len(heap[order[i]].vals) |->
                      IF heap[order[i]].vals[j].ref = 0 THEN heap[order[i]].vals[j]
                      ELSE Ref(Position(order, heap[order[i]].vals[j].ref))]]]

\* the graph reached through a value up to the identity of its objects:
\* two graphs are isomorphic exactly if their shapes are equal
Shape(heap, v) == IF v.ref = 0 THEN <<v>> ELSE Renumbered(heap, Visit(heap, <<>>, v.ref))

\* C17: util.clone returns on every enumerated graph, those with cycles
\* included; it returns a value that is not a mapping or list as it is, and
\* for a mapping or list a graph of new objects only that is isomorphic to
\* the graph of its argument (same kinds, keys in the same order, the same
\* primitive values, references to one object becoming references to one
\* clone, so a cycle becomes a cycle of the same shape); the objects of the
\* argument are left as they were.
C17_CloneIsomorphic ==
    CloneReturned =>
        /\ Unchanged(OldObjects)
        /\ input.o.ref = 0 => (ret = input.o /\ Len(grammars) = Len(input.heap))
        /\ input.o.ref # 0 =>
              /\ ReachFrom(grammars, ret) \cap OldObjects = {}
              /\ Shape(grammars, ret) = Shape(input.heap, input.o)
              /\ Cardinality(ReachFrom(grammars, ret)) =
                    Cardinality(ReachFrom(input.heap, input.o))

\* the clone of markup has returned where markup's tag rule has markup as
\* its `inside` and is also an element of the list of entity: in the clone
\* the rule's inside is the clone itself and the list holds the clone's
\* rule
C17_Witness ==
    /\ CloneReturned
    /\ input.o = Ref(3)
    /\ Get(input.heap[5], "inside") = Ref(3)
    /\ Get(input.heap[7], "1") = Ref(5)
    /\ Get(grammars[Get(ReturnedMapping, "tag").ref], "inside") = ret
    /\ Get(grammars[Get(ReturnedMapping, "entity").ref], "1") = Get(ReturnedMapping, "tag")
    /\ Get(ReturnedMapping, "tag") # Ref(5)

\* the class names a wrap callback list adds to a Token's classes
RECURSIVE AddedClasses(_)
AddedClasses(callbacks) ==
    IF callbacks = <<>> THEN <<>>
    ELSE (IF callbacks[1] = "addClass" THEN <<"x">> ELSE <<>>)
            \o AddedClasses(Tail(callbacks))

\* the names separated by spaces
RECURSIVE Spaced(_)
Spaced(names) ==
    IF Len(names) < 2 THEN names
    ELSE <<names[1], " ">> \o Spaced(Tail(names))

\* <span class="...">content</span>
Wrapper(classes, content) ==
    <<"<", "span", " class=\"">> \o Spaced(classes) \o <<"\"", ">">>
        \o content \o <<"</", "span", ">">>

\* a string as itself, a stream as its elements' renderings one after the
\* other, a Token as one wrapper around the rendering of its content with
\* the classes token, its type, its aliases and the extra ones
RECURSIVE Rendering(_, _)
RECURSIVE RenderingOfStream(_, _)
Rendering(o, extra) ==
    IF o.kind = "str" THEN o.str
    ELSE Wrapper(<<"token", o.type>> \o o.alias \o extra,
                 IF o.nested THEN RenderingOfStream(o.stream, extra) ELSE o.str)

RenderingOfStream(stream, extra) ==
    IF stream = <<>> THEN <<>>
    ELSE Rendering(stream[1], extra) \o RenderingOfStream(Tail(stream), extra)

HighlightReturned == hl.active /\ hl.phase = "returned"

\* C18 as stated: the string returned is the rendering of the tokens where
\* every Token's class list is token, its type, its aliases.
C18_ClassesAsBuilt ==
    HighlightReturned =>
        hl.out = RenderingOfStream(EncodeStream(hl.env.tokens), <<>>)

\* C18: stringify renders a string as itself, a stream as the renderings
\* of its elements in order, and a Token as one wrapper around the
\* rendering of its content; the wrapper's class list is token, the type,
\* the aliases in order, followed by whatever the wrap callbacks, run on
\* every Token before it is rendered, have added; when no wrap callback is
\* registered the class list is exactly token, type, aliases.
C18_Rendering ==
    HighlightReturned =>
        /\ hl.out = RenderingOfStream(EncodeStream(hl.env.tokens),
                                      AddedClasses(hooks["wrap"]))
        /\ hooks["wrap"] = <<>> =>
              hl.out = RenderingOfStream(EncodeStream(hl.env.tokens), <<>>)

\* highlight("1a", {number: /1/, letter: {pattern: /a/, alias: [...]}},
\* "x") has returned the wrapper of a number and that of a letter with its
\* two aliases
C18_Witness ==
    /\ HighlightReturned
    /\ input.text = <<"1", "a">>
    /\ hooks["wrap"] = <<>>
    /\ hl.out = <<"<", "span", " class=\"", "token", " ", "number", "\"", ">", "1",
                  "</", "span", ">",
                  "<", "span", " class=\"", "token", " ", "letter", " ", "vowel",
                  " ", "lower", "\"", ">", "a", "</", "span", ">">>

\* ------------------------------------------------------------------------
\* C19, C20: the walker of jsx and tsx
\* ------------------------------------------------------------------------

\* the hook has walked the stream and returned
WalkReturned == input.call = "walk" /\ pc = "done" /\ input.language = input.hook

\* the one plain-text token of a run whose texts, concatenated, are text
RunToken(text) == Token("plain-text", text, <<>>, text)

\* the run token with the text of one more element
Joined(run, token) == RunToken(run.str \o stringifyToken(token))

\* The stream regrouped, element by element from the left: openedTags is the
\* stack of contexts before the first of tokens, out the elements made so
\* far, and inRun tells that the last of out is the token of a run that the
\* next element continues.  An element that is not plain text stays, its
\* own nested stream regrouped the same way from an empty stack.
RECURSIVE Regroup(_, _, _, _)
Regrouped(tokens) == Regroup(tokens, <<>>, <<>>, FALSE)

Inner(token) ==
    IF token.kind = "tok" /\ token.nested
    THEN [token EXCEPT !.stream = Regrouped(token.stream)]
    ELSE token

Regroup(tokens, openedTags, out, inRun) ==
    IF tokens = <<>> THEN out
    ELSE IF IsPlainText(Head(tokens), openedTags)
    THEN Regroup(Tail(tokens), openedTags,
                 IF inRun THEN [out EXCEPT ![Len(out)] = Joined(@, Head(tokens))]
                 ELSE Append(out, Joined(RunToken(<<>>), Head(tokens))),
                 TRUE)
    ELSE Regroup(Tail(tokens), Opened(Head(tokens), openedTags),
                 Append(out, Inner(Head(tokens))), FALSE)

\* C19: in every stream the walker processes, the elements met while a
\* context is open and the brace depth of the top context is 0, and that
\* are neither a tag token nor a counted brace, are plain text; each
\* maximal run of consecutive plain-text elements is exactly one token of
\* type plain-text whose content is the concatenation of their texts; and
\* every other element, those met at a brace depth above 0 among them,
\* stays the token it was, its nested stream processed in turn.
C19_RunsMerged == WalkReturned => ret = Regrouped(input.tokens)

\* <a>xkx: a run of three elements has become the one token "xkx"
C19_Witness ==
    /\ WalkReturned
    /\ input.tokens = <<OpenTag(<<"a">>), Str(<<"x">>), Keyword, Str(<<"x">>)>>
    /\ ret = <<Inner(OpenTag(<<"a">>)), RunToken(<<"x", "k", "x">>)>>

\* the activation whose loop takes a turn in the next step, the element the
\* turn is about, and the activation after the step
Turning == stack[Len(stack)]

Met == Turning.tokens[Turning.i + 1]

Turned == stack'[Len(stack)]

\* a step is a turn of a walkTokens loop
IsTurn ==
    /\ input.call = "walk"
    /\ pc = "run"
    /\ Turning.i < Len(Turning.tokens)
    /\ Len(stack') >= Len(stack)

\* the last nested element of the element met is the marker "/>"
EndsSelfClosing ==
    /\ Met.nested
    /\ Met.stream # <<>>
    /\ Met.stream[Len(Met.stream)].kind = "tok"
    /\ ~Met.stream[Len(Met.stream)].nested
    /\ Met.stream[Len(Met.stream)].str = <<"/", ">">>

\* the element met is a tag token whose first nested element is a tag token
MetTag ==
    /\ Met.kind = "tok"
    /\ Met.type = "tag"
    /\ Met.nested
    /\ Met.stream # <<>>
    /\ Met.stream[1].kind = "tok"
    /\ Met.stream[1].type = "tag"

\* the tag met begins with the marker "</"
BeginsClosing ==
    /\ Met.stream[1].nested
    /\ Met.stream[1].stream # <<>>
    /\ Met.stream[1].stream[1].kind = "tok"
    /\ ~Met.stream[1].stream[1].nested
    /\ Met.stream[1].stream[1].str = <<"<", "/">>

\* the text of the second nested element of the tag's first element
MetName ==
    IF Met.stream[1].nested /\ Len(Met.stream[1].stream) >= 2
    THEN stringifyToken(Met.stream[1].stream[2])
    ELSE <<>>

\* C20: a turn of the loop leaves the stack of contexts longer only when
\* the element met is a tag that neither begins with "</" nor ends with
\* "/>"; such a tag pushes exactly one context, of its name and of brace
\* depth 0, and every other element pushes none: a tag ending with "/>"
\* and a closing tag never push.  A step that is not a turn changes the
\* stack of no activation that stays.
C20_PushOnlyOnOpeningTag ==
    [][/\ IsTurn =>
            IF MetTag /\ ~BeginsClosing /\ ~EndsSelfClosing
            THEN Turned.openedTags
                    = Append(Turning.openedTags,
                             [tagName |-> MetName, openedBraces |-> 0])
            ELSE Len(Turned.openedTags) <= Len(Turning.openedTags)
       /\ \A k \in 1..Len(stack') :
             \/ k < Len(stack) /\ stack'[k].openedTags = stack[k].openedTags
             \/ k = Len(stack) /\ IsTurn
             \/ k > Len(stack) /\ stack'[k].openedTags = <<>>
             \/ stack = <<>> /\ stack'[k].openedTags = <<>>]_vars

\* <a><b/></b>: after three turns the opening tag has pushed the one
\* context of a, the tag ending with "/>" and the closing tag none
C20_Witness ==
    /\ input.call = "walk"
    /\ pc = "run"
    /\ input.tokens = <<OpenTag(<<"a">>), SelfTag(<<"b">>), CloseTag(<<"b">>)>>
    /\ Len(stack) = 1
    /\ stack[1].i = 3
    /\ stack[1].openedTags = <<[tagName |-> <<"a">>, openedBraces |-> 0]>>

\* C21: a turn of the loop that meets a closing tag leaves the stack of
\* contexts exactly as it was when the stack is empty or the name of its
\* top context differs from the tag's name, and without its top context,
\* the others as they were, when the names are equal; in both cases the
\* walk goes on, no error is raised.
C21_ClosingTagPopsOnlyItsOwn ==
    [][(IsTurn /\ MetTag /\ BeginsClosing) =>
          /\ pc' = "run"
          /\ Turned.openedTags
                = IF /\ Turning.openedTags # <<>>
                     /\ Turning.openedTags[Len(Turning.openedTags)].tagName = MetName
                  THEN SubSeq(Turning.openedTags, 1, Len(Turning.openedTags) - 1)
                  ELSE Turning.openedTags]_vars

\* <a><a></b></a>: after four turns the closing tag of b has left the two
\* contexts and the closing tag of a has removed the upper one only
C21_Witness ==
    /\ input.call = "walk"
    /\ pc = "run"
    /\ input.tokens = <<OpenTag(<<"a">>), OpenTag(<<"a">>), CloseTag(<<"b">>), CloseTag(<<"a">>)>>
    /\ Len(stack) = 1
    /\ stack[1].i = 4
    /\ stack[1].openedTags = <<[tagName |-> <<"a">>, openedBraces |-> 0]>>

\* ------------------------------------------------------------------------
\* C22: token lengths and the ranges of highlightTextNode
\* ------------------------------------------------------------------------

\* every Token of the stream, at any depth, is as long as the elements of
\* its content are together
RECURSIVE LengthsAddUp(_)
LengthsAddUp(stream) ==
    \A k \in 1..Len(stream) :
        stream[k].kind = "tok" =>
            IF stream[k].nested
            THEN /\ stream[k].length = SumLengths(stream[k].stream)
                 /\ LengthsAddUp(stream[k].stream)
            ELSE stream[k].length = Len(stream[k].str)

\* the ranges follow one another from 0 to len
Contiguous(ranges, len) ==
    /\ ranges # <<>>
    /\ ranges[1].startOffset = 0
    /\ \A k \in 1..Len(ranges) : ranges[k].startOffset <= ranges[k].endOffset
    /\ \A k \in 2..Len(ranges) : ranges[k].startOffset = ranges[k - 1].endOffset
    /\ ranges[Len(ranges)].endOffset = len

\* the number of plain strings of a stream and of the contents of its
\* tokens
RECURSIVE Leaves(_)
Leaves(stream) ==
    IF stream = <<>> THEN 0
    ELSE (IF stream[1].kind = "str" \/ ~stream[1].nested THEN 1
          ELSE Leaves(stream[1].stream))
         + Leaves(Tail(stream))

\* highlightTextNode has registered its ranges
RangesRegistered ==
    input.call = "highlightTextNode" /\ pc = "done" /\ input.g # 0

\* C22: in every stream tokenize(T, G) returns each Token's length is the
\* sum of the lengths of the elements of its content, and the ranges the
\* text-node highlighter registers for it, one per plain-string leaf, are
\* contiguous and do not overlap: the first starts at 0, each starts where
\* the one before ended, and the last ends at len(T).
C22_RangesContiguous ==
    /\ (input.call = "highlightTextNode" /\ pc \in {"ret", "done"} /\ input.g # 0)
          => LengthsAddUp(ret)
    /\ RangesRegistered =>
          /\ Len(log) = Leaves(ret)
          /\ Contiguous(log, Len(input.text))

\* "aba" under {k1: {pattern: /ab/, inside: {inner: /b/, tail: /a/}}, ...}:
\* ranges of a nested stream and of the string after it
C22_Witness ==
    /\ RangesRegistered
    /\ Len(log) >= 3
    /\ Len(ret) < Len(log)
    /\ \E k \in 1..Len(log) : log[k].type = "source" /\ log[k].startOffset > 0
    /\ \E k \in 1..Len(ret) : ret[k].kind = "tok" /\ ret[k].nested /\ Len(ret[k].stream) > 1

\* ------------------------------------------------------------------------
\* C23, C24: what Prism.tokenize does to the grammar
\* ------------------------------------------------------------------------

KeyNamesOf(grammar) == {grammar.keys[i].name : i \in 1..Len(grammar.keys)}

\* the keys of `other` whose names `grammar` does not have, in their order
RECURSIVE NewKeys(_, _, _)
NewKeys(grammar, other, n) ==
    IF n > Len(other.keys) THEN <<>>
    ELSE (IF other.keys[n].name \in KeyNamesOf(grammar) THEN <<>> ELSE <<other.keys[n]>>)
         \o NewKeys(grammar, other, n + 1)

\* `new` is the grammar `old` with the keys of its `rest` grammar assigned
\* to it and `rest` deleted: a key it had keeps its place and gets the value
\* of rest, the keys it did not have follow in the order of rest
RestAssigned(old, new, rest) ==
    /\ new.rest = 0
    /\ Len(new.keys) >= Len(old.keys)
    /\ \A i \in 1..Len(old.keys) :
          new.keys[i] = IF old.keys[i].name \in KeyNamesOf(rest)
                        THEN rest.keys[KeyIndex(rest.keys, old.keys[i].name)]
                        ELSE old.keys[i]
    /\ SubSeq(new.keys, Len(old.keys) + 1, Len(new.keys)) = NewKeys(old, rest, 1)

\* the flags among i, m, s, u, y that no other flag follows in the order
\* in which a RegExp prints its flags
TrailingFlags(flags) ==
    {FlagOrder[n] : n \in {k \in 1..Len(FlagOrder) :
        /\ FlagOrder[k] \in flags
        /\ \A h \in k..Len(FlagOrder) :
              FlagOrder[h] \in flags => FlagOrder[h] \in {"i", "m", "s", "u", "y"}}}

\* `new` is the grammar `old` but for the pattern of one greedy rule that
\* had no g flag: it has its trailing flags and g
FlagGiven(old, new) ==
    \E k \in 1..Len(old.keys) : \E j \in 1..Len(old.keys[k].rules) :
        /\ old.keys[k].rules[j].greedy
        /\ "g" \notin old.keys[k].rules[j].pattern.flags
        /\ new = [old EXCEPT !.keys[k].rules[j].pattern.flags =
                                TrailingFlags(old.keys[k].rules[j].pattern.flags) \cup {"g"}]

RestDeleted(g) == grammars[g].rest # 0 /\ grammars'[g].rest = 0

NotBefore(f, e) == f.ki > e.ki \/ (f.ki = e.ki /\ f.j >= e.j)

MatchesEmpty ==
    \E k \in 1..Len(grammars[input.g].keys) :
        \E j \in 1..Len(grammars[input.g].keys[k].rules) :
            matchPattern(grammars[input.g].keys[k].rules[j].pattern, 0, <<>>,
                         grammars[input.g].keys[k].rules[j].lookbehind).ok

\* C25: tokenize("", G) returns the stream of the one empty string, for
\* every grammar G, those with patterns that match the empty string
\* included; so does every nested call on an empty text.
C25_EmptyText ==
    /\ (input.call = "tokenize" /\ input.text = <<>>) =>
          /\ pc = "ret" => ret = <<Str(<<>>)>>
          /\ \A k \in 1..Len(results) : results[k] = <<Str(<<>>)>>
    /\ (ev.kind = "InsideReturn" /\ ev.len = 0) => ret = <<Str(<<>>)>>

\* tokenize("", G) has returned [""] with a rule of G that matches ""
C25_Witness ==
    /\ input.call = "tokenize"
    /\ input.text = <<>>
    /\ pc = "ret"
    /\ ret = <<Str(<<>>)>>
    /\ MatchesEmpty

\* ------------------------------------------------------------------------
\* C26..C30: greedy matches and rematch passes
\* ------------------------------------------------------------------------

\* the first node from `node` on, `start` being its offset, that ends
\* beyond offset off: the node the offset lies in (0 when there is none)
RECURSIVE NodeOver(_, _, _, _)
NodeOver(nodes, node, start, off) ==
    IF node = TailNode \/ node = 0 THEN 0
    ELSE IF start + nodes[node].value.length > off THEN node
    ELSE NodeOver(nodes, nodes[node].next, start + nodes[node].value.length, off)

\* the node of the running call's list that offset off lies in
NodeAtOffset(off) == NodeOver(A.list.nodes, A.list.nodes[HeadNode].next, 0, off)

\* the match of the greedy rule of the running pass, searched in the whole
\* text from the offset the pass is at
GreedyMatch == matchPattern(F.rule.pattern, F.pos, A.text, F.rule.lookbehind)

\* a greedy rule has found a match that starts inside the text
GreedyFound ==
    /\ AtString
    /\ F.rule.greedy
    /\ GreedyMatch.ok
    /\ GreedyMatch.index < Len(A.text)

\* C26: when the match of a greedy rule starts at an offset that lies in a
\* Token node, the step makes no token and leaves the list, that Token
\* included, as it was; otherwise the offset lies in a plain-text node and
\* the token made starts at that offset.  So every token a greedy rule
\* makes starts at an offset that lay in a plain-text node when the match
\* was found.
C26_GreedyStartsInPlainText ==
    [][GreedyFound =>
          /\ NodeAtOffset(GreedyMatch.index) # 0
          /\ IF A.list.nodes[NodeAtOffset(GreedyMatch.index)].value.kind = "tok"
             THEN /\ ev'.kind = "MatchContinue"
                  /\ pc' = "run"
                  /\ Len(stack') = Len(stack)
                  /\ stack'[Len(stack)].list = A.list
             ELSE /\ ev'.kind \in {"Splice", "SpliceInside"}
                  /\ ev'.from = GreedyMatch.index
                  /\ A.list.nodes[NodeAtOffset(ev'.from)].value.kind = "str"]_vars

\* a greedy rule has just passed over a Token its match started in: the
\* pass goes on behind that Token
C26_Witness ==
    /\ ev.kind = "MatchContinue"
    /\ ev.rule.greedy
    /\ Running
    /\ F.phase = "node"
    /\ F.cur # 0
    /\ A.list.nodes[F.cur].prev # 0
    /\ A.list.nodes[A.list.nodes[F.cur].prev].value.kind = "tok"
    /\ Len(toArray(A.list)) > 1

\* the last n elements of a sequence
Suffix(s, n) == SubSeq(s, Len(s) - n + 1, Len(s))

\* the step replaces the count nodes of the list `old` from position i on,
\* the first of them a plain string at offset start, and no other node:
\* `new` begins and ends as `old` does around them
ReplacesAt(old, new, i, count, start) ==
    /\ i + count - 1 <= Len(old)
    /\ old[i].kind = "str"
    /\ SumLengths(SubSeq(old, 1, i - 1)) = start
    /\ Len(new) >= Len(old) - count
    /\ SubSeq(new, 1, i - 1) = SubSeq(old, 1, i - 1)
    /\ Suffix(new, Len(old) - i + 1 - count) = Suffix(old, Len(old) - i + 1 - count)

\* the step is a splice by the running pass
SpliceStep == AtString /\ ev'.kind \in {"Splice", "SpliceInside"}

\* the list of the running call after the splice step
ListAfter == toArray(stack'[Len(stack)].list)

\* the step starts a rematch pass: some call has one more matchGrammar
\* running
RematchStarted ==
    \E d \in 1..Len(stack') :
        d <= Len(stack) /\ Len(stack'[d].frames) > Len(stack[d].frames)

\* C27: a splice by a rule that is not greedy replaces exactly one node, a
\* plain string, and leaves every other node, so every Token, as it was.
\* A rematch pass is started exactly by the splices that replaced more than
\* one node; the rule of such a splice is greedy and one of the nodes it
\* replaced was a Token.
C27_OneNodeUnlessGreedy ==
    [][/\ SpliceStep =>
             /\ \E i \in 1..Len(toArray(A.list)) :
                   /\ ReplacesAt(toArray(A.list), ListAfter, i, ev'.removeCount, ev'.start)
                   /\ ev'.removeCount > 1 =>
                         \E k \in i..(i + ev'.removeCount - 1) :
                             toArray(A.list)[k].kind = "tok"
             /\ ~F.rule.greedy => ev'.removeCount = 1
       /\ RematchStarted <=>
             (ev'.kind \in {"Splice", "InsideReturn"} /\ ev'.removeCount > 1)
       /\ RematchStarted =>
             /\ ev'.rule.greedy
             /\ stack'[ev'.depth].frames[Len(stack'[ev'.depth].frames)].rematch]_vars

\* a rule that is not greedy has replaced the one string between two
\* Tokens, which are still there
C27_Witness ==
    /\ ev.kind = "Splice"
    /\ ~ev.rule.greedy
    /\ ev.removeCount = 1
    /\ Running
    /\ \E k \in 2..(Len(toArray(A.list)) - 1) :
          /\ toArray(A.list)[k - 1].kind = "tok"
          /\ toArray(A.list)[k].kind = "tok"
          /\ toArray(A.list)[k].type = ev.token
          /\ toArray(A.list)[k - 1].type # ev.token
          /\ toArray(A.list)[k + 1].kind = "tok"

\* the offset at which element k of a list starts
StartOf(list, k) == SumLengths(SubSeq(list, 1, k - 1))

\* the frame of the running pass after a splice step
FrameAfter == stack'[Len(stack)].frames[Len(A.frames)]

Before(p, q) == p[1] < q[1] \/ (p[1] = q[1] /\ p[2] < q[2])

\* the rule the pass at level n of the running call is at
RuleAt(n) == <<A.frames[n].ki, A.frames[n].j>>

\* the step applies a rule: it reads the rule off the grammar, or makes a
\* splice with it
Applies ==
    /\ Running
    /\ ev'.kind \in {"RuleStart", "Splice", "SpliceInside"}
    /\ ev'.depth = Len(stack)

\* C29: while a rematch pass runs, the passes it starts included, only
\* rules strictly before the rule that started it, in key order and then
\* list order, are applied to the list; the rule that started it and the
\* rules after it make no splice until the pass has returned.
C29_OnlyEarlierRules ==
    [][Applies =>
          \A n \in 2..Len(A.frames) :
              /\ A.frames[n].rematch
              /\ A.frames[n - 1].phase = "rematch"
              /\ A.frames[n].cause = CauseOf(A.frames[n - 1].token, A.frames[n - 1].j)
              /\ Before(RuleAt(Len(A.frames)), RuleAt(n - 1))]_vars

\* a rule has made a splice in a rematch pass that an earlier rematch pass
\* started, and rules after it are left in the grammar
C29_Witness ==
    /\ Running
    /\ ev.kind = "Splice"
    /\ ev.depth = Len(stack)
    /\ ev.level = 3
    /\ Len(A.frames) >= 3
    /\ A.frames[3].rematch
    /\ Before(RuleAt(3), RuleAt(2))
    /\ Before(RuleAt(2), RuleAt(1))
    /\ A.frames[1].ki <= Len(grammars[A.g].keys)

RECURSIVE NumRules(_)
\* the number of rules of a grammar: the patterns of its keys, the keys
\* with a falsy value left out
NumRules(keys) ==
    IF keys = <<>> THEN 0
    ELSE (IF Head(keys).falsy THEN 0 ELSE Len(Head(keys).rules))
         + NumRules(Tail(keys))

\* the rule a cause names: its key's index and its index in the key's list
CausePlace(keys, cause) == <<KeyIndex(keys, cause.token), cause.j + 1>>

\* the cause names a rule of the grammar
IsRule(keys, cause) ==
    /\ KeyIndex(keys, cause.token) > 0
    /\ ~keys[KeyIndex(keys, cause.token)].falsy
    /\ cause.j + 1 \in 1..Len(keys[KeyIndex(keys, cause.token)].rules)

\* C30: in every running call the rematch passes nest no deeper than the
\* grammar has rules, every rematch pass is caused by a rule of the
\* grammar, and a rematch pass started inside another rematch pass is
\* caused by a rule strictly earlier, in key order and then list order,
\* than the cause of the pass it was started in.
C30_NestingBounded ==
    \A i \in 1..Len(stack) :
        LET frames == stack[i].frames
            keys == grammars[stack[i].g].keys
        IN  /\ Len(frames) <= NumRules(keys) + 1
            /\ \A n \in 1..Len(frames) : frames[n].rematch <=> n > 1
            /\ \A n \in 2..Len(frames) : IsRule(keys, frames[n].cause)
            /\ \A n \in 3..Len(frames) :
                  Before(CausePlace(keys, frames[n].cause),
                         CausePlace(keys, frames[n - 1].cause))

\* a rematch pass runs inside a rematch pass, in a grammar that has rules
\* after the cause of the outer pass
C30_Witness ==
    /\ Running
    /\ Len(A.frames) = 3
    /\ F.phase = "rule"
    /\ A.frames[2].cause # A.frames[3].cause
    /\ CausePlace(grammars[A.g].keys, A.frames[3].cause)[1] > 1
    /\ NumRules(grammars[A.g].keys) > 2

\* C31: at every moment of every tokenize call, nested calls included, the
\* working list holds at most len(text) + 2 nodes, by its length field and
\* by the nodes between head and tail, also for patterns that match the
\* empty string.
C31_ListBounded ==
    \A i \in 1..Len(stack) :
        /\ stack[i].list.length <= Len(stack[i].text) + 2
        /\ Len(toArray(stack[i].list)) <= Len(stack[i].text) + 2

\* a working list holds len(text) + 2 nodes, some of them empty Tokens
C31_Witness ==
    /\ Running
    /\ A.text # <<>>
    /\ A.list.length = Len(A.text) + 2
    /\ Len(toArray(A.list)) = Len(A.text) + 2
    /\ \E k \in 1..Len(toArray(A.list)) :
          /\ toArray(A.list)[k].kind = "tok"
          /\ toArray(A.list)[k].length = 0

\* the nodes strictly between head and tail
Between(list) == SubSeq(Chain(list), 2, Len(Chain(list)) - 1)

\* C32: after any sequence of addAfter and removeRange calls made at nodes
\* of the list other than the tail, removeRange with a count beyond the
\* nodes that follow included, head is still first and tail last, following
\* `next` from head arrives at tail after exactly list.length nodes, and
\* every node n between them has n.prev.next = n and n.next.prev = n.
C32_ListWellFormed ==
    LET list == TheList
        chain == Chain(list)
    IN  /\ Len(chain) >= 2
        /\ chain[1] = HeadNode
        /\ chain[Len(chain)] = TailNode
        /\ list.nodes[HeadNode].prev = 0
        /\ list.nodes[TailNode].next = 0
        /\ Len(chain) - 2 = list.length
        /\ toArray(list) = [k \in 1..list.length |-> list.nodes[chain[k + 1]].value]
        /\ \A k \in 2..(Len(chain) - 1) :
              /\ list.nodes[chain[k]].prev = chain[k - 1]
              /\ list.nodes[list.nodes[chain[k]].prev].next = chain[k]
              /\ list.nodes[list.nodes[chain[k]].next].prev = chain[k]

\* removeRange has been called with a count larger than the number of
\* nodes after its node, on a list that held nodes, and left some
C32_Witness ==
    /\ input.call = "list"
    /\ ev.kind = "removeRange"
    /\ ev.removeCount = 3
    /\ ev.node # HeadNode
    /\ TheList.length = 1
    /\ Len(TheList.nodes) = 5

\* the element is a punctuation token whose content is the string s
IsPunctuation(x, s) ==
    x.kind = "tok" /\ x.type = "punctuation" /\ ~x.nested /\ x.str = s

\* the walkTokens call that is running and the element its loop is at
Walking == pc = "run" /\ input.call = "walk" /\ stack # <<>>

AtElement == stack[Len(stack)].i < Len(stack[Len(stack)].tokens)

Element == stack[Len(stack)].tokens[stack[Len(stack)].i + 1]

\* the brace depth of the top context of a stack of opened tags
Depth(openedTags) == openedTags[Len(openedTags)].openedBraces

\* the stacks of opened tags are the same but for the depth of the top
\* context, which differs by d
TopDepthMoved(o1, o2, d) ==
    /\ Len(o2) = Len(o1)
    /\ Len(o1) > 0
    /\ \A k \in 1..(Len(o1) - 1) : o2[k] = o1[k]
    /\ o2[Len(o1)].tagName = o1[Len(o1)].tagName
    /\ Depth(o2) = Depth(o1) + d

\* no brace depth of the two stacks differs at a context they share
SameDepths(o1, o2) ==
    \A k \in 1..Min(Len(o1), Len(o2)) : o2[k] = o1[k]

\* C33: the brace depth of every open context is at least 0 in every state
\* of the walk; a step changes no depth of a call that is waiting for a
\* nested call, and in the running call only the depth of the top context:
\* by +1 exactly at a "{" punctuation token met while a context is open, by
\* -1 exactly at a "}" punctuation token met while the top depth is above
\* 0; a context that is pushed starts at depth 0.
C33_BraceDepth ==
    /\ [](input.call = "walk" =>
            \A d \in 1..Len(stack) :
                \A k \in 1..Len(stack[d].openedTags) :
                    stack[d].openedTags[k].openedBraces >= 0)
    /\ [][Walking =>
            /\ \A d \in 1..(Len(stack) - 1) :
                  d <= Len(stack') => stack'[d].openedTags = stack[d].openedTags
            /\ Len(stack') >= Len(stack) =>
                  LET o1 == stack[Len(stack)].openedTags
                      o2 == stack'[Len(stack)].openedTags
                  IN  IF ~AtElement THEN o2 = o1
                      ELSE IF Len(o1) > 0 /\ IsPunctuation(Element, <<"{">>)
                      THEN TopDepthMoved(o1, o2, 1)
                      ELSE IF /\ Len(o1) > 0 /\ Depth(o1) > 0
                              /\ IsPunctuation(Element, <<"}">>)
                      THEN TopDepthMoved(o1, o2, -1)
                      ELSE /\ SameDepths(o1, o2)
                           /\ Len(o2) > Len(o1) =>
                                 Len(o2) = Len(o1) + 1 /\ Depth(o2) = 0]_vars

\* a "}" has taken the top context from depth 2 to depth 1
C33_Witness ==
    /\ Walking
    /\ stack[Len(stack)].i >= 4
    /\ Len(stack[Len(stack)].openedTags) > 0
    /\ Depth(stack[Len(stack)].openedTags) = 1
    /\ IsPunctuation(stack[Len(stack)].tokens[stack[Len(stack)].i], <<"}">>)
    /\ IsPunctuation(stack[Len(stack)].tokens[stack[Len(stack)].i - 2], <<"{">>)
    /\ IsPunctuation(stack[Len(stack)].tokens[stack[Len(stack)].i - 3], <<"{">>)

\* The Tokens of a stream in the order in which their wrap hooks are to
\* run: the Tokens nested in a Token before the Token, siblings from left
\* to right, plain strings left out.
RECURSIVE TokensInside(_)
TokensInside(stream) ==
    IF stream = <<>> THEN <<>>
    ELSE (IF stream[1].kind = "str" THEN <<>>
          ELSE (IF stream[1].nested THEN TokensInside(stream[1].stream) ELSE <<>>)
               \o <<stream[1].type>>)
         \o TokensInside(Tail(stream))

\* each of the callbacks called once, in order, for each of the types
RECURSIVE OncePerToken(_, _)
OncePerToken(types, callbacks) ==
    IF types = <<>> THEN <<>>
    ELSE [i \in 1..Len(callbacks) |-> [hook |-> "wrap", cb |-> callbacks[i], on |-> types[1]]]
         \o OncePerToken(Tail(types), callbacks)

IsWrapCall(e) == e.hook = "wrap"

\* C34: when highlight has returned, the calls of wrap callbacks are, in
\* order, the registered wrap callbacks once for every Token of the stream
\* handed to stringify, the Tokens nested in a Token's content before that
\* Token and siblings from left to right, and none for a plain string.
C34_WrapOncePerToken ==
    HighlightReturned =>
        SelectSeq(log, IsWrapCall)
            = OncePerToken(TokensInside(EncodeStream(hl.env.tokens)), hooks["wrap"])

\* stringify has run a wrap callback on a stream that holds a plain string
\* and a Token with two Tokens nested in it
C34_Witness ==
    /\ HighlightReturned
    /\ hooks["wrap"] # <<>>
    /\ \E k \in 1..Len(hl.env.tokens) : hl.env.tokens[k].kind = "str"
    /\ \E k \in 1..Len(hl.env.tokens) :
          /\ hl.env.tokens[k].kind = "tok"
          /\ hl.env.tokens[k].nested
          /\ Len(hl.env.tokens[k].stream) = 2
          /\ hl.env.tokens[k].stream[1].kind = "tok"
          /\ hl.env.tokens[k].stream[2].kind = "tok"
          /\ hl.env.tokens[k].stream[1].type # hl.env.tokens[k].stream[2].type

\* the hooks.run call with callbacks that call hooks.add has returned
LiveRunReturned == input.call = "runLive" /\ pc = "done"

\* C35: when hooks.run(name, env) returns, every callback in the list of
\* name has been called once, in the order of the list, the callbacks that
\* were added to name by callbacks of this run included; they come after
\* every callback registered before them.
C35_AddedDuringRun ==
    LiveRunReturned =>
        /\ Len(log) = Len(hooks[input.name])
        /\ \A k \in 1..Len(log) :
              /\ log[k].cb = hooks[input.name][k]
              /\ log[k].at = k
        /\ SubSeq(hooks[input.name], 1, Len(input.all[input.name]))
              = input.all[input.name]

\* a run has returned in which a callback added a callback to the hook
\* that was running and that callback added another one
C35_Witness ==
    /\ LiveRunReturned
    /\ input.name = "before-tokenize"
    /\ Len(input.all[input.name]) > 0
    /\ Len(hooks[input.name]) >= Len(input.all[input.name]) + 2
    /\ log[Len(log)].cb = "recode"
    /\ log[Len(log)].at > Len(input.all[input.name])

\* every Token of the stream, nested ones included, has the length of its
\* text, as the Tokens tokenize makes have
RECURSIVE LengthsOfText(_)
LengthsOfText(stream) ==
    \A k \in 1..Len(stream) :
        stream[k].kind = "tok" =>
            /\ stream[k].length = Len(stringifyToken(stream[k]))
            /\ stream[k].nested => LengthsOfText(stream[k].stream)

\* every plain-text token of the stream, nested ones included, holds a
\* string and has its length
RECURSIVE PlainTextSized(_)
PlainTextSized(stream) ==
    \A k \in 1..Len(stream) :
        stream[k].kind = "tok" =>
            /\ stream[k].type = "plain-text" =>
                  ~stream[k].nested /\ stream[k].length = Len(stream[k].str)
            /\ stream[k].nested => PlainTextSized(stream[k].stream)

\* C36: for a stream whose Tokens have the lengths of their texts, the
\* stream the walker leaves has the same concatenated leaf text and the
\* same sum of top-level lengths, and every plain-text token in it has the
\* length of its content.
C36_TextAndLengthKept ==
    (WalkReturned /\ LengthsOfText(input.tokens)) =>
        /\ StringifyAll(ret) = StringifyAll(input.tokens)
        /\ SumLengths(ret) = SumLengths(input.tokens)
        /\ PlainTextSized(ret)

\* the walker has merged a string, a token with nested content and a token
\* into one plain-text token, after a self-closing tag
C36_Witness ==
    /\ WalkReturned
    /\ LengthsOfText(input.tokens)
    /\ Len(input.tokens) = 4
    /\ Len(ret) = 2
    /\ \E k \in 1..4 : input.tokens[k] = Interpolation
    /\ ret[2].kind = "tok"
    /\ ret[2].type = "plain-text"
    /\ ret[2].length >= 7

\* the registry object before and after the call
RegistryBefore == input.heap[Languages]

RegistryAfter == grammars[Languages]

\* C37 as stated: insertBefore(inside, before, rules) on the registry adds
\* no top-level key to Prism.languages and changes no top-level entry other
\* than `inside` and the entries that referred to the old mapping.
C37_RegistryFrame ==
    (InsertReturned /\ input.root = Languages) =>
        /\ RegistryAfter.keys = RegistryBefore.keys
        /\ \A k \in KeySet(RegistryBefore) :
              (k # input.id /\ Get(RegistryBefore, k) # Ref(OldMapping))
                  => Get(RegistryAfter, k) = Get(RegistryBefore, k)

\* C38: when `before` is not a key of the grammar root[inside], the mapping
\* insertBefore installs at root[inside] and returns holds none of the keys
\* of the rules passed: it has the keys of the old grammar that the rules
\* passed do not have, in the old order and with the old values.
C38_MissingBeforeDropsKeys ==
    (InsertReturned /\ ~HasOwn(OldGrammar, input.before)) =>
        /\ Get(grammars[input.root], input.id) = ret
        /\ ReturnedMapping.keys = KeptKeys(1, Len(OldGrammar.keys))
        /\ \A k \in KeySet(PassedRules) : ~HasOwn(ReturnedMapping, k)
        /\ \A k \in KeySet(ReturnedMapping) :
              Get(ReturnedMapping, k) = Get(OldGrammar, k)

\* insertBefore("markup", "none", {color: ..., comment: ...}) has returned a
\* mapping that has lost comment and has not got color
C38_Witness ==
    /\ InsertReturned
    /\ input.root = Languages /\ input.id = "markup" /\ input.before = "none"
    /\ PassedRules.keys = <<"color", "comment">>
    /\ OldGrammar.keys = <<"comment", "tag", "entity">>
    /\ ReturnedMapping.keys = <<"tag", "entity">>

\* the number of DFS calls made on object n so far
Descents(n) == Cardinality({i \in 1..Len(log) : log[i] = DFSCalled(n)})

\* the callback has been called for the property key of object n
CallbackSeen(n, key) == \E i \in 1..Len(log) : log[i] = CallbackCalled(n, key)

\* Object.keys(n) as it was when a DFS call on n began: the callback
\* assigns to properties of Prism.languages only, and the traversal begins
\* there
KeysEntered(n) ==
    IF n = Languages THEN input.heap[Languages].keys ELSE grammars[n].keys

\* the traversal has returned, and the callback has been called for every
\* property of every mapping and list reached from Prism.languages
EveryPropertySeen ==
    pc = "ret" =>
        \A n \in Reach(grammars, {Languages}) :
            \A j \in 1..Len(KeysEntered(n)) : CallbackSeen(n, KeysEntered(n)[j])

DFSAgrees ==
    pc = "ret" =>
        grammars = insertBefore(input.heap, input.id, input.before, Redef, input.root).heap

\* C40: the plain text of the leaves of every stream tokenize returns,
\* taken in order through nested streams, is the text of the call; the
\* same holds for the working list of every running call between two
\* splices, the list a pass left through the length test included.
C40_LeafTextIsText ==
    /\ \A i \in 1..Len(stack) :
          Settled(i) => StringifyAll(toArray(stack[i].list)) = stack[i].text
    /\ pc = "ret" => StringifyAll(ret) = input.text
    /\ \A k \in 1..Len(results) : StringifyAll(results[k]) = input.text

\* {k1: {pattern: /(b)x*/, lookbehind: true}} on "bbbb": the length test
\* has stopped the pass at the fifth node, "bb", which the pattern matches,
\* and the call has returned the five nodes
C40_Witness ==
    /\ ev.kind = "Finish"
    /\ input.text = <<"b", "b", "b", "b">>
    /\ Len(ret) = 5
    /\ ret[4].kind = "tok" /\ ret[4].str = <<>>
    /\ ret[5] = Str(<<"b", "b">>)
    /\ StringifyAll(ret) = input.text


====
